---- MODULE Spec2Model ----
(***************************************************************************)
(* Quoridor rules engine and game controller (board.py).                   *)
(*                                                                         *)
(* A cell is <<x, y>>, a wall is <<orientation, x, y>> as in the source.   *)
(* A GameState is a record [pos, walls_left, walls, current_player]; the   *)
(* players' fields are functions over the player index 0..1.  Python lists *)
(* are sequences, deep copies are values.  A function of the source that   *)
(* mutates its argument and returns a flag is an operator that returns a   *)
(* record [ret, gs] holding the flag and the argument after the call.      *)
(***************************************************************************)
EXTENDS Integers, Sequences, FiniteSets, TLC

BOARD_SIZE == 9

INITIAL_WALLS == 10

\* Game.winner is None while the game is in progress.
None == 0 - 1

Players == {0, 1}

goal_row(i) == IF i = 0 THEN 8 ELSE 0

start_pos(i) == IF i = 0 THEN <<4, 0>> ELSE <<4, 8>>

GameState ==
    [ pos            |-> [i \in Players |-> start_pos(i)],
      walls_left     |-> [i \in Players |-> INITIAL_WALLS],
      walls          |-> << >>,
      current_player |-> 0 ]

----------------------------------------------------------------------------
(* Python list helpers *)

\* e in list
contains(list, e) == \E k \in DOMAIN list : list[k] = e

\* list.remove(e): drops the first occurrence of e (e is known to be in list)
list_remove(list, e) ==
    LET k == CHOOSE j \in DOMAIN list :
                 list[j] = e /\ \A m \in 1..(j - 1) : list[m] # e
    IN  SubSeq(list, 1, k - 1) \o SubSeq(list, k + 1, Len(list))

\* list.pop() leaves the list without its last element
list_pop(list) == SubSeq(list, 1, Len(list) - 1)

last(list) == list[Len(list)]

min(a, b) == IF a < b THEN a ELSE b

----------------------------------------------------------------------------
(* Movement logic *)

is_on_board(x, y) == 0 <= x /\ x < BOARD_SIZE /\ 0 <= y /\ y < BOARD_SIZE

\* wall_blocks_move looking at the anchor slot only.
wall_blocks_move_anchor_only(walls, from_pos, to_pos) ==
    LET x1 == from_pos[1]
        y1 == from_pos[2]
        x2 == to_pos[1]
        y2 == to_pos[2]
    IN  IF x1 # x2 THEN contains(walls, <<"V", min(x1, x2), y1>>)
        ELSE IF y1 # y2 THEN contains(walls, <<"H", x1, min(y1, y2)>>)
        ELSE FALSE

wall_blocks_move(walls, from_pos, to_pos) ==
    LET x1 == from_pos[1]
        y1 == from_pos[2]
        x2 == to_pos[1]
        y2 == to_pos[2]
    IN  IF x1 # x2
        THEN LET left == min(x1, x2)
                 y    == y1
             IN  contains(walls, <<"V", left, y>>)
                 \/ (y > 0 /\ contains(walls, <<"V", left, y - 1>>))
        ELSE IF y1 # y2
        THEN LET x   == x1
                 top == min(y1, y2)
             IN  contains(walls, <<"H", x, top>>)
                 \/ (x > 0 /\ contains(walls, <<"H", x - 1, top>>))
        ELSE FALSE

directions == << <<1, 0>>, <<0 - 1, 0>>, <<0, 1>>, <<0, 0 - 1>> >>

\* moves_in_direction without the test that the neighbour holds the opponent:
\* a plain step onto the opponent's cell.
moves_in_direction_onto_opponent(gs, player_index, d) ==
    LET x  == gs.pos[player_index][1]
        y  == gs.pos[player_index][2]
        nx == x + d[1]
        ny == y + d[2]
    IN  IF ~is_on_board(nx, ny) THEN << >>
        ELSE IF wall_blocks_move(gs.walls, <<x, y>>, <<nx, ny>>) THEN << >>
        ELSE << <<nx, ny>> >>

\* moves_in_direction with the side steps tried after the straight jump
\* whether or not the jump is possible.
moves_in_direction_jump_and_sides(gs, player_index, d) ==
    LET x  == gs.pos[player_index][1]
        y  == gs.pos[player_index][2]
        ox == gs.pos[1 - player_index][1]
        oy == gs.pos[1 - player_index][2]
        dx == d[1]
        dy == d[2]
        nx == x + dx
        ny == y + dy
        jx == ox + dx
        jy == oy + dy
        side1 == <<ox + dy, oy + dx>>
        side2 == <<ox - dy, oy - dx>>
        side(s) ==
            IF /\ is_on_board(s[1], s[2])
               /\ ~wall_blocks_move(gs.walls, <<ox, oy>>, s)
               /\ ~wall_blocks_move(gs.walls, <<x, y>>, s)
            THEN <<s>> ELSE << >>
        jump ==
            IF /\ is_on_board(jx, jy)
               /\ ~wall_blocks_move(gs.walls, <<ox, oy>>, <<jx, jy>>)
            THEN << <<jx, jy>> >> ELSE << >>
    IN  IF ~is_on_board(nx, ny) THEN << >>
        ELSE IF wall_blocks_move(gs.walls, <<x, y>>, <<nx, ny>>) THEN << >>
        ELSE IF <<nx, ny>> # <<ox, oy>> THEN << <<nx, ny>> >>
        ELSE jump \o side(side1) \o side(side2)

\* moves_in_direction with the side cells taken along the direction of the
\* move instead of across it.
moves_in_direction_sides_along(gs, player_index, d) ==
    LET x  == gs.pos[player_index][1]
        y  == gs.pos[player_index][2]
        ox == gs.pos[1 - player_index][1]
        oy == gs.pos[1 - player_index][2]
        dx == d[1]
        dy == d[2]
        nx == x + dx
        ny == y + dy
        jx == ox + dx
        jy == oy + dy
        side1 == <<ox + dx, oy + dy>>
        side2 == <<ox - dx, oy - dy>>
        side(s) ==
            IF /\ is_on_board(s[1], s[2])
               /\ ~wall_blocks_move(gs.walls, <<ox, oy>>, s)
               /\ ~wall_blocks_move(gs.walls, <<x, y>>, s)
            THEN <<s>> ELSE << >>
    IN  IF ~is_on_board(nx, ny) THEN << >>
        ELSE IF wall_blocks_move(gs.walls, <<x, y>>, <<nx, ny>>) THEN << >>
        ELSE IF <<nx, ny>> # <<ox, oy>> THEN << <<nx, ny>> >>
        ELSE IF /\ is_on_board(jx, jy)
                /\ ~wall_blocks_move(gs.walls, <<ox, oy>>, <<jx, jy>>)
        THEN << <<jx, jy>> >>
        ELSE side(side1) \o side(side2)

\* The body of the for loop of get_valid_moves: the moves one direction adds.
moves_in_direction(gs, player_index, d) ==
    LET x  == gs.pos[player_index][1]
        y  == gs.pos[player_index][2]
        ox == gs.pos[1 - player_index][1]
        oy == gs.pos[1 - player_index][2]
        dx == d[1]
        dy == d[2]
        nx == x + dx
        ny == y + dy
        jx == ox + dx
        jy == oy + dy
        side1 == <<ox + dy, oy + dx>>
        side2 == <<ox - dy, oy - dx>>
        side(s) ==
            IF /\ is_on_board(s[1], s[2])
               /\ ~wall_blocks_move(gs.walls, <<ox, oy>>, s)
               /\ ~wall_blocks_move(gs.walls, <<x, y>>, s)
            THEN <<s>> ELSE << >>
    IN  IF ~is_on_board(nx, ny) THEN << >>
        ELSE IF wall_blocks_move(gs.walls, <<x, y>>, <<nx, ny>>) THEN << >>
        ELSE IF <<nx, ny>> # <<ox, oy>> THEN << <<nx, ny>> >>
        ELSE IF /\ is_on_board(jx, jy)
                /\ ~wall_blocks_move(gs.walls, <<ox, oy>>, <<jx, jy>>)
        THEN << <<jx, jy>> >>
        ELSE side(side1) \o side(side2)

get_valid_moves(gs, player_index) ==
    moves_in_direction(gs, player_index, directions[1])
    \o moves_in_direction(gs, player_index, directions[2])
    \o moves_in_direction(gs, player_index, directions[3])
    \o moves_in_direction(gs, player_index, directions[4])

----------------------------------------------------------------------------
(* Wall rules and path validation *)

\* The cells the search adds to the queue from cell c: on board, not yet
\* visited, not separated from c by a wall.
bfs_neighbours(walls, c, visited) ==
    { n \in { <<c[1] + directions[k][1], c[2] + directions[k][2]>> : k \in 1..4 } :
        /\ n \notin visited
        /\ is_on_board(n[1], n[2])
        /\ ~wall_blocks_move(walls, c, n) }

\* The search of has_path_to_goal, one distance level of the queue at a time.
RECURSIVE bfs_has_path(_, _, _, _)
bfs_has_path(walls, goal, frontier, visited) ==
    IF frontier = {} THEN FALSE
    ELSE IF \E c \in frontier : c[2] = goal THEN TRUE
    ELSE LET next == UNION { bfs_neighbours(walls, c, visited) : c \in frontier }
         IN  bfs_has_path(walls, goal, next, visited \cup next)

\* has_path_to_goal with the opponent's cell counted as visited.
has_path_to_goal_around_opponent(gs, i) ==
    bfs_has_path(gs.walls, goal_row(i), {gs.pos[i]}, {gs.pos[i], gs.pos[1 - i]})

has_path_to_goal(gs, i) ==
    bfs_has_path(gs.walls, goal_row(i), {gs.pos[i]}, {gs.pos[i]})

\* is_valid_wall_placement with the path checked for the player to move only.
is_valid_wall_placement_mover_only(gs, x, y, orientation) ==
    LET wall == <<orientation, x, y>>
        tmp  == [gs EXCEPT !.walls = Append(gs.walls, wall)]
        ok   == has_path_to_goal(tmp, gs.current_player)
    IN  IF x < 0 \/ y < 0 \/ x >= BOARD_SIZE - 1 \/ y >= BOARD_SIZE - 1
        THEN [ret |-> FALSE, gs |-> gs]
        ELSE IF contains(gs.walls, wall)
        THEN [ret |-> FALSE, gs |-> gs]
        ELSE IF orientation = "H" /\ contains(gs.walls, <<"H", x + 1, y>>)
        THEN [ret |-> FALSE, gs |-> gs]
        ELSE IF orientation = "H" /\ contains(gs.walls, <<"H", x - 1, y>>)
        THEN [ret |-> FALSE, gs |-> gs]
        ELSE IF orientation # "H" /\ contains(gs.walls, <<"V", x, y + 1>>)
        THEN [ret |-> FALSE, gs |-> gs]
        ELSE IF orientation # "H" /\ contains(gs.walls, <<"V", x, y - 1>>)
        THEN [ret |-> FALSE, gs |-> gs]
        ELSE [ret |-> ok,
              gs  |-> [tmp EXCEPT !.walls = list_remove(tmp.walls, wall)]]

\* is_valid_wall_placement returning as soon as a player has no path, the
\* temporary wall still in the list.
is_valid_wall_placement_keeps_wall(gs, x, y, orientation) ==
    LET wall == <<orientation, x, y>>
        tmp  == [gs EXCEPT !.walls = Append(gs.walls, wall)]
        ok   == has_path_to_goal(tmp, 0) /\ has_path_to_goal(tmp, 1)
    IN  IF x < 0 \/ y < 0 \/ x >= BOARD_SIZE - 1 \/ y >= BOARD_SIZE - 1
        THEN [ret |-> FALSE, gs |-> gs]
        ELSE IF contains(gs.walls, wall)
        THEN [ret |-> FALSE, gs |-> gs]
        ELSE IF orientation = "H" /\ contains(gs.walls, <<"H", x + 1, y>>)
        THEN [ret |-> FALSE, gs |-> gs]
        ELSE IF orientation = "H" /\ contains(gs.walls, <<"H", x - 1, y>>)
        THEN [ret |-> FALSE, gs |-> gs]
        ELSE IF orientation # "H" /\ contains(gs.walls, <<"V", x, y + 1>>)
        THEN [ret |-> FALSE, gs |-> gs]
        ELSE IF orientation # "H" /\ contains(gs.walls, <<"V", x, y - 1>>)
        THEN [ret |-> FALSE, gs |-> gs]
        ELSE IF ~ok
        THEN [ret |-> FALSE, gs |-> tmp]
        ELSE [ret |-> TRUE,
              gs  |-> [tmp EXCEPT !.walls = list_remove(tmp.walls, wall)]]

\* is_valid_wall_placement looking for a wall of the same orientation on one
\* side only: at x + 1 for "H", at y + 1 otherwise.
is_valid_wall_placement_one_side(gs, x, y, orientation) ==
    LET wall == <<orientation, x, y>>
        tmp  == [gs EXCEPT !.walls = Append(gs.walls, wall)]
        ok   == has_path_to_goal(tmp, 0) /\ has_path_to_goal(tmp, 1)
    IN  IF x < 0 \/ y < 0 \/ x >= BOARD_SIZE - 1 \/ y >= BOARD_SIZE - 1
        THEN [ret |-> FALSE, gs |-> gs]
        ELSE IF contains(gs.walls, wall)
        THEN [ret |-> FALSE, gs |-> gs]
        ELSE IF orientation = "H" /\ contains(gs.walls, <<"H", x + 1, y>>)
        THEN [ret |-> FALSE, gs |-> gs]
        ELSE IF orientation # "H" /\ contains(gs.walls, <<"V", x, y + 1>>)
        THEN [ret |-> FALSE, gs |-> gs]
        ELSE [ret |-> ok,
              gs  |-> [tmp EXCEPT !.walls = list_remove(tmp.walls, wall)]]

\* is_valid_wall_placement without the removal of the temporary wall.
is_valid_wall_placement_no_remove(gs, x, y, orientation) ==
    LET wall == <<orientation, x, y>>
        tmp  == [gs EXCEPT !.walls = Append(gs.walls, wall)]
        ok   == has_path_to_goal(tmp, 0) /\ has_path_to_goal(tmp, 1)
    IN  IF x < 0 \/ y < 0 \/ x >= BOARD_SIZE - 1 \/ y >= BOARD_SIZE - 1
        THEN [ret |-> FALSE, gs |-> gs]
        ELSE IF contains(gs.walls, wall)
        THEN [ret |-> FALSE, gs |-> gs]
        ELSE IF orientation = "H" /\ contains(gs.walls, <<"H", x + 1, y>>)
        THEN [ret |-> FALSE, gs |-> gs]
        ELSE IF orientation = "H" /\ contains(gs.walls, <<"H", x - 1, y>>)
        THEN [ret |-> FALSE, gs |-> gs]
        ELSE IF orientation # "H" /\ contains(gs.walls, <<"V", x, y + 1>>)
        THEN [ret |-> FALSE, gs |-> gs]
        ELSE IF orientation # "H" /\ contains(gs.walls, <<"V", x, y - 1>>)
        THEN [ret |-> FALSE, gs |-> gs]
        ELSE [ret |-> ok, gs |-> tmp]

\* Returns [ret, gs]: the verdict and the state as the call leaves it.
is_valid_wall_placement(gs, x, y, orientation) ==
    LET wall == <<orientation, x, y>>
        tmp  == [gs EXCEPT !.walls = Append(gs.walls, wall)]
        ok   == has_path_to_goal(tmp, 0) /\ has_path_to_goal(tmp, 1)
    IN  IF x < 0 \/ y < 0 \/ x >= BOARD_SIZE - 1 \/ y >= BOARD_SIZE - 1
        THEN [ret |-> FALSE, gs |-> gs]
        ELSE IF contains(gs.walls, wall)
        THEN [ret |-> FALSE, gs |-> gs]
        ELSE IF orientation = "H" /\ contains(gs.walls, <<"H", x + 1, y>>)
        THEN [ret |-> FALSE, gs |-> gs]
        ELSE IF orientation = "H" /\ contains(gs.walls, <<"H", x - 1, y>>)
        THEN [ret |-> FALSE, gs |-> gs]
        ELSE IF orientation # "H" /\ contains(gs.walls, <<"V", x, y + 1>>)
        THEN [ret |-> FALSE, gs |-> gs]
        ELSE IF orientation # "H" /\ contains(gs.walls, <<"V", x, y - 1>>)
        THEN [ret |-> FALSE, gs |-> gs]
        ELSE [ret |-> ok,
              gs  |-> [tmp EXCEPT !.walls = list_remove(tmp.walls, wall)]]

\* The states the game state handed to is_valid_wall_placement goes through
\* from the entry of the call to its return, and the state at the return.
is_valid_wall_placement_during(gs, x, y, orientation) ==
    LET wall == <<orientation, x, y>>
        tmp  == [gs EXCEPT !.walls = Append(gs.walls, wall)]
        back == [tmp EXCEPT !.walls = list_remove(tmp.walls, wall)]
    IN  IF x < 0 \/ y < 0 \/ x >= BOARD_SIZE - 1 \/ y >= BOARD_SIZE - 1
        THEN [seen |-> {gs}, gs |-> gs]
        ELSE IF contains(gs.walls, wall)
        THEN [seen |-> {gs}, gs |-> gs]
        ELSE IF orientation = "H" /\ contains(gs.walls, <<"H", x + 1, y>>)
        THEN [seen |-> {gs}, gs |-> gs]
        ELSE IF orientation = "H" /\ contains(gs.walls, <<"H", x - 1, y>>)
        THEN [seen |-> {gs}, gs |-> gs]
        ELSE IF orientation # "H" /\ contains(gs.walls, <<"V", x, y + 1>>)
        THEN [seen |-> {gs}, gs |-> gs]
        ELSE IF orientation # "H" /\ contains(gs.walls, <<"V", x, y - 1>>)
        THEN [seen |-> {gs}, gs |-> gs]
        ELSE [seen |-> {gs, tmp, back}, gs |-> back]

----------------------------------------------------------------------------
(* Apply moves *)

make_move(gs, new_pos) ==
    IF contains(get_valid_moves(gs, gs.current_player), new_pos)
    THEN [ret |-> TRUE,
          gs  |-> [gs EXCEPT !.pos[gs.current_player] = new_pos,
                             !.current_player = 1 - gs.current_player]]
    ELSE [ret |-> FALSE, gs |-> gs]

\* place_wall taking the wall from the other player's supply.
place_wall_charges_opponent(gs, x, y, orientation) ==
    LET p == gs.current_player
        v == is_valid_wall_placement(gs, x, y, orientation)
    IN  IF gs.walls_left[p] <= 0
        THEN [ret |-> FALSE, gs |-> gs]
        ELSE IF ~v.ret
        THEN [ret |-> FALSE, gs |-> v.gs]
        ELSE [ret |-> TRUE,
              gs  |-> [v.gs EXCEPT !.walls = Append(v.gs.walls, <<orientation, x, y>>),
                                   !.walls_left[1 - p] = v.gs.walls_left[1 - p] - 1,
                                   !.current_player = 1 - p]]

\* place_wall without the change of turn.
place_wall_keeps_turn(gs, x, y, orientation) ==
    LET p == gs.current_player
        v == is_valid_wall_placement(gs, x, y, orientation)
    IN  IF gs.walls_left[p] <= 0
        THEN [ret |-> FALSE, gs |-> gs]
        ELSE IF ~v.ret
        THEN [ret |-> FALSE, gs |-> v.gs]
        ELSE [ret |-> TRUE,
              gs  |-> [v.gs EXCEPT !.walls = Append(v.gs.walls, <<orientation, x, y>>),
                                   !.walls_left[p] = v.gs.walls_left[p] - 1]]

place_wall(gs, x, y, orientation) ==
    LET p == gs.current_player
        v == is_valid_wall_placement(gs, x, y, orientation)
    IN  IF gs.walls_left[p] <= 0
        THEN [ret |-> FALSE, gs |-> gs]
        ELSE IF ~v.ret
        THEN [ret |-> FALSE, gs |-> v.gs]
        ELSE [ret |-> TRUE,
              gs  |-> [v.gs EXCEPT !.walls = Append(v.gs.walls, <<orientation, x, y>>),
                                   !.walls_left[p] = v.gs.walls_left[p] - 1,
                                   !.current_player = 1 - p]]

----------------------------------------------------------------------------
(* History (undo / redo): two stacks of GameState snapshots *)

History == [undo_stack |-> << >>, redo_stack |-> << >>]

\* History.push leaving the redo stack as it is.
History_push_keeps_redo(h, gs) ==
    [undo_stack |-> Append(h.undo_stack, gs), redo_stack |-> h.redo_stack]

History_push(h, gs) ==
    [undo_stack |-> Append(h.undo_stack, gs), redo_stack |-> << >>]

\* History.undo saving the restored snapshot, not the current state, for redo.
History_undo_saves_restored(h, gs) ==
    IF h.undo_stack = << >>
    THEN [found |-> FALSE, state |-> gs, h |-> h]
    ELSE [found |-> TRUE,
          state |-> last(h.undo_stack),
          h     |-> [undo_stack |-> list_pop(h.undo_stack),
                     redo_stack |-> Append(h.redo_stack, last(h.undo_stack))]]

\* History.undo saving the current state for redo also when there is nothing
\* to undo.
History_undo_empty_saves(h, gs) ==
    IF h.undo_stack = << >>
    THEN [found |-> FALSE, state |-> gs,
          h |-> [h EXCEPT !.redo_stack = Append(h.redo_stack, gs)]]
    ELSE [found |-> TRUE,
          state |-> last(h.undo_stack),
          h     |-> [undo_stack |-> list_pop(h.undo_stack),
                     redo_stack |-> Append(h.redo_stack, gs)]]

\* Returns [found, state, h]: found is FALSE where the source returns None.
History_undo(h, gs) ==
    IF h.undo_stack = << >>
    THEN [found |-> FALSE, state |-> gs, h |-> h]
    ELSE [found |-> TRUE,
          state |-> last(h.undo_stack),
          h     |-> [undo_stack |-> list_pop(h.undo_stack),
                     redo_stack |-> Append(h.redo_stack, gs)]]

History_redo(h, gs) ==
    IF h.redo_stack = << >>
    THEN [found |-> FALSE, state |-> gs, h |-> h]
    ELSE [found |-> TRUE,
          state |-> last(h.redo_stack),
          h     |-> [undo_stack |-> Append(h.undo_stack, gs),
                     redo_stack |-> list_pop(h.redo_stack)]]

----------------------------------------------------------------------------
(* Game: a record [state, history, winner]; every method returns [ret, g] *)

Game == [state |-> GameState, history |-> History, winner |-> None]

Game_reset(g) == [ret |-> TRUE, g |-> Game]

\* _check_winner comparing each pawn's row with the other player's goal row.
check_winner_other_goal(gs, w) ==
    IF gs.pos[0][2] = goal_row(1) THEN 0
    ELSE IF gs.pos[1][2] = goal_row(0) THEN 1
    ELSE w

\* The winner after _check_winner ran on gs with the winner field at w.
check_winner(gs, w) ==
    IF gs.pos[0][2] = goal_row(0) THEN 0
    ELSE IF gs.pos[1][2] = goal_row(1) THEN 1
    ELSE w

\* Game.move_pawn without the test that the game is over.
Game_move_pawn_after_over(g, new_pos) ==
    LET h == History_push(g.history, g.state)
        m == make_move(g.state, new_pos)
    IN  IF m.ret
        THEN [ret |-> TRUE,
              g   |-> [state   |-> m.gs,
                       history |-> h,
                       winner  |-> check_winner(m.gs, g.winner)]]
        ELSE [ret |-> FALSE,
              g   |-> [state   |-> m.gs,
                       history |-> [h EXCEPT !.undo_stack = list_pop(h.undo_stack)],
                       winner  |-> g.winner]]

Game_move_pawn(g, new_pos) ==
    LET h == History_push(g.history, g.state)
        m == make_move(g.state, new_pos)
    IN  IF g.winner # None
        THEN [ret |-> FALSE, g |-> g]
        ELSE IF m.ret
        THEN [ret |-> TRUE,
              g   |-> [state   |-> m.gs,
                       history |-> h,
                       winner  |-> check_winner(m.gs, g.winner)]]
        ELSE [ret |-> FALSE,
              g   |-> [state   |-> m.gs,
                       history |-> [h EXCEPT !.undo_stack = list_pop(h.undo_stack)],
                       winner  |-> g.winner]]

Game_place_wall(g, x, y, orientation) ==
    LET h == History_push(g.history, g.state)
        m == place_wall(g.state, x, y, orientation)
    IN  IF g.winner # None
        THEN [ret |-> FALSE, g |-> g]
        ELSE IF m.ret
        THEN [ret |-> TRUE,
              g   |-> [state |-> m.gs, history |-> h, winner |-> g.winner]]
        ELSE [ret |-> FALSE,
              g   |-> [state   |-> m.gs,
                       history |-> [h EXCEPT !.undo_stack = list_pop(h.undo_stack)],
                       winner  |-> g.winner]]

\* Game.undo without the reset of the winner.
Game_undo_keeps_winner(g) ==
    LET u == History_undo(g.history, g.state)
    IN  IF u.found
        THEN [ret |-> TRUE,
              g   |-> [state |-> u.state, history |-> u.h, winner |-> g.winner]]
        ELSE [ret |-> FALSE, g |-> [g EXCEPT !.history = u.h]]

Game_undo(g) ==
    LET u == History_undo(g.history, g.state)
    IN  IF u.found
        THEN [ret |-> TRUE,
              g   |-> [state |-> u.state, history |-> u.h, winner |-> None]]
        ELSE [ret |-> FALSE, g |-> [g EXCEPT !.history = u.h]]

\* Game.redo without the call of _check_winner.
Game_redo_keeps_winner(g) ==
    LET r == History_redo(g.history, g.state)
    IN  IF r.found
        THEN [ret |-> TRUE,
              g   |-> [state |-> r.state, history |-> r.h, winner |-> g.winner]]
        ELSE [ret |-> FALSE, g |-> [g EXCEPT !.history = r.h]]

Game_redo(g) ==
    LET r == History_redo(g.history, g.state)
    IN  IF r.found
        THEN [ret |-> TRUE,
              g   |-> [state   |-> r.state,
                       history |-> r.h,
                       winner  |-> check_winner(r.state, g.winner)]]
        ELSE [ret |-> FALSE, g |-> [g EXCEPT !.history = r.h]]

----------------------------------------------------------------------------
(* Bounds and inputs *)

\* Calls made per behaviour.
MaxCalls == 3

\* Targets handed to move_pawn: the cells of columns 3 to 5, the cells just
\* beyond both ends of these columns, and cells left and right of row 4, on
\* the board and off it.
PosArgs ==
    { <<x, y>> : x \in 3..5, y \in (0 - 1)..BOARD_SIZE }
    \cup { <<0 - 1, 4>>, <<2, 4>>, <<6, 4>>, <<BOARD_SIZE, 4>> }

\* (x, y, orientation) handed to place_wall: walls around slot (3,3), behind
\* pawns that meet in column 4; the walls that close the last gap around
\* (4,0) and around (4,8); the wall right of (4,5); and arguments outside
\* the slot grid or with an orientation that is neither "H" nor "V".
WallArgs ==
    { <<3, 3, "H">>, <<4, 3, "H">>, <<3, 5, "H">>, <<3, 4, "V">>, <<3, 3, "V">>,
      <<4, 0, "V">>, <<4, 7, "V">>, <<4, 5, "V">>,
      <<0 - 1, 0, "H">>, <<8, 3, "V">>, <<5, 5, "X">> }

mv(x, y) == [op |-> "move_pawn", arg |-> <<x, y>>]
wl(x, y, o) == [op |-> "place_wall", arg |-> <<x, y, o>>]

apply_call(g, c) ==
    IF c.op = "move_pawn"
    THEN Game_move_pawn(g, c.arg).g
    ELSE Game_place_wall(g, c.arg[1], c.arg[2], c.arg[3]).g

\* The game g after the calls of the list were made on it, in their order:
\* the first half of the list, then the second half on the game x the first
\* half leaves, computed once.
RECURSIVE replay(_, _)
replay(g, calls) ==
    IF calls = << >> THEN g
    ELSE IF Len(calls) = 1 THEN apply_call(g, calls[1])
    ELSE CHOOSE h \in { replay(x, SubSeq(calls, Len(calls) \div 2 + 1, Len(calls))) :
                            x \in { replay(g, SubSeq(calls, 1, Len(calls) \div 2)) } } : TRUE

\* Games under way, each reached from the new game by the calls listed.
\* The pawns meet in column 4, player 1 to move.
FaceOff ==
    replay(Game, << mv(4, 1), mv(4, 7), mv(4, 2), mv(4, 6), mv(4, 3), mv(4, 5),
                    mv(4, 4) >>)

\* Each pawn is one step from its goal row, player 1 to move.
EndGame ==
    replay(FaceOff, << mv(4, 3), mv(4, 5), mv(4, 2), mv(4, 6), mv(4, 1), mv(4, 7) >>)

\* Player 0 has placed four walls, player 1 none.
FourWalls ==
    replay(Game, << wl(0, 1, "H"), mv(3, 8), wl(2, 1, "H"), mv(4, 8),
                    wl(4, 1, "H"), mv(3, 8), wl(6, 1, "H"), mv(4, 8) >>)

\* Player 0 has placed eight walls, player 1 none.
EightWalls ==
    replay(FourWalls, << wl(0, 4, "V"), mv(3, 8), wl(0, 6, "V"), mv(4, 8),
                         wl(7, 4, "V"), mv(3, 8), wl(7, 6, "V"), mv(4, 8) >>)

\* Player 0 has placed all its walls, player 1 none; player 0 to move.
WallsOut ==
    replay(EightWalls, << wl(1, 5, "H"), mv(3, 8), wl(6, 5, "H"), mv(4, 8) >>)

\* Both start cells are walled in but for one gap; player 0 to move.
Boxed ==
    replay(Game, << wl(3, 0, "H"), wl(3, 7, "H"), wl(2, 0, "V"), wl(2, 7, "V") >>)

\* The pawns face each other in column 4, player 1 at (4,5) walled in on its
\* left and below, with a wall behind player 0; player 0 to move.
Cornered ==
    replay(FaceOff, << wl(3, 3, "H"), wl(3, 4, "V"), wl(3, 5, "H") >>)

\* Player 0 has walled player 1 in on its right as well; player 1 to move.
Trapped ==
    replay(FaceOff, << wl(3, 3, "H"), wl(3, 4, "V"), wl(3, 5, "H"), wl(4, 5, "V") >>)

Openings == { Game, FaceOff, EndGame, WallsOut, Boxed, Cornered }

----------------------------------------------------------------------------
(* The game controller driven by its callers *)

VARIABLES
    state,      \* Game.state
    history,    \* Game.history
    winner,     \* Game.winner
    call,       \* the last call: its name and what it returned
    before,     \* Game.state and Game.winner as the last call found them
    ncalls      \* calls made since the start of the behaviour

vars == <<state, history, winner, call, before, ncalls>>

game == [state |-> state, history |-> history, winner |-> winner]

Init ==
    /\ \E g \in Openings :
         /\ state = g.state
         /\ history = g.history
         /\ winner = g.winner
    /\ call = [op |-> "new", ret |-> TRUE]
    /\ before = [state |-> state, winner |-> winner]
    /\ ncalls = 0

\* The call op returned r = [ret, g].
returns(op, r) ==
    /\ state' = r.g.state
    /\ history' = r.g.history
    /\ winner' = r.g.winner
    /\ call' = [op |-> op, ret |-> r.ret]
    /\ before' = [state |-> state, winner |-> winner]
    /\ ncalls' = ncalls + 1

MovePawn ==
    /\ ncalls < MaxCalls
    /\ \E new_pos \in PosArgs : returns("move_pawn", Game_move_pawn(game, new_pos))

PlaceWall ==
    /\ ncalls < MaxCalls
    /\ \E w \in WallArgs :
         returns("place_wall", Game_place_wall(game, w[1], w[2], w[3]))

Undo ==
    /\ ncalls < MaxCalls
    /\ returns("undo", Game_undo(game))

Redo ==
    /\ ncalls < MaxCalls
    /\ returns("redo", Game_redo(game))

Reset ==
    /\ ncalls < MaxCalls
    /\ returns("reset", Game_reset(game))

Next == MovePawn \/ PlaceWall \/ Undo \/ Redo \/ Reset

Spec == Init /\ [][Next]_vars

----------------------------------------------------------------------------
(* get_valid_moves applied to positions with the pawns side by side *)

\* Walls on the board of such a position.
MaxFixtureWalls == 2

Cells == { <<x, y>> : x \in 0..(BOARD_SIZE - 1), y \in 0..(BOARD_SIZE - 1) }

\* Where player 0 stands in these positions: in a corner, on an edge, one
\* cell from an edge, or in the middle of the board.
FixtureCells ==
    { c \in Cells : c[1] \in {0, 1, 4, 7, 8} /\ c[2] \in {0, 1, 4, 7, 8} }

step(c, d) == <<c[1] + d[1], c[2] + d[2]>>

\* The walls that touch a corner of cell c: the only ones that can block a
\* move out of c.
walls_around(c) ==
    { <<o, x, y>> : o \in {"H", "V"},
                    x \in {c[1] - 1, c[1]} \cap (0..(BOARD_SIZE - 2)),
                    y \in {c[2] - 1, c[2]} \cap (0..(BOARD_SIZE - 2)) }

RECURSIVE set_to_seq(_)
set_to_seq(S) ==
    IF S = {} THEN << >>
    ELSE LET e == CHOOSE e \in S : TRUE IN <<e>> \o set_to_seq(S \ {e})

\* The walls of ws placed one after the other on gs, each one passing
\* is_valid_wall_placement; ok is FALSE when one of them is refused.
RECURSIVE with_walls(_, _)
with_walls(gs, ws) ==
    IF ws = << >> THEN [ok |-> TRUE, gs |-> gs]
    ELSE LET w == Head(ws)
         IN  IF is_valid_wall_placement(gs, w[2], w[3], w[1]).ret
             THEN with_walls([gs EXCEPT !.walls = Append(gs.walls, w)], Tail(ws))
             ELSE [ok |-> FALSE, gs |-> gs]

\* The subsets of S with at most k elements.
RECURSIVE subsets_upto(_, _)
subsets_upto(S, k) ==
    IF k = 0 THEN {{}}
    ELSE LET r == subsets_upto(S, k - 1)
         IN  r \cup { t \cup {w} : t \in r, w \in S }

\* A game in progress with the pawns on adjacent cells and up to
\* MaxFixtureWalls walls around the two cells, every wall accepted by
\* is_valid_wall_placement.
InitMoves ==
    /\ \E a \in FixtureCells, k \in 1..4 :
         LET b == step(a, directions[k])
         IN  /\ b \in Cells
             /\ a[2] # goal_row(0)
             /\ b[2] # goal_row(1)
             /\ \E ws \in subsets_upto(walls_around(a) \cup walls_around(b), MaxFixtureWalls) :
                  LET f == with_walls([GameState EXCEPT !.pos = (0 :> a @@ 1 :> b)],
                                      set_to_seq(ws))
                  IN  f.ok /\ state = f.gs
    /\ history = History
    /\ winner = None
    /\ call = [op |-> "new", ret |-> TRUE]
    /\ before = [state |-> state, winner |-> winner]
    /\ ncalls = 0

GetValidMoves ==
    /\ ncalls = 0
    /\ \E i \in Players :
         call' = [op |-> "get_valid_moves", player |-> i, ret |-> get_valid_moves(state, i)]
    /\ ncalls' = 1
    /\ UNCHANGED <<state, history, winner, before>>

NextMoves == GetValidMoves

SpecMoves == InitMoves /\ [][NextMoves]_vars

----------------------------------------------------------------------------
(* Properties of the game controller, checked under Spec *)

abs(n) == IF n < 0 THEN 0 - n ELSE n

range(list) == { list[k] : k \in DOMAIN list }

moving(op) == op \in {"move_pawn", "place_wall"}

\* C1: in every reachable state both players have a path that respects the
\* walls from their cell to their goal row.
C1_PathsExist ==
    has_path_to_goal(state, 0) /\ has_path_to_goal(state, 1)

\* A wall was accepted while both start cells were walled in but for one gap.
C1_Witness ==
    /\ call = [op |-> "place_wall", ret |-> TRUE]
    /\ Len(state.walls) = 5
    /\ SubSeq(state.walls, 1, 4) = Boxed.state.walls

\* C2: a move_pawn or place_wall call that returns False leaves the pawn
\* positions, the wall list, the wall counts, the turn and the winner as they
\* were.
C2_RejectedLeavesState ==
    [][ (moving(call'.op) /\ ~call'.ret) => (state' = state /\ winner' = winner) ]_vars

\* place_wall returned False in a game in progress to a player who holds
\* walls, on a board where a wall of WallArgs would cut off a player.
C2_Witness ==
    /\ call = [op |-> "place_wall", ret |-> FALSE]
    /\ winner = None
    /\ state.walls_left[state.current_player] > 0
    /\ \E w \in WallArgs :
         LET tmp == [state EXCEPT !.walls = Append(state.walls, <<w[3], w[1], w[2]>>)]
         IN  ~has_path_to_goal(tmp, 0) \/ ~has_path_to_goal(tmp, 1)

\* C3: undo directly after an accepted move_pawn or place_wall restores the
\* state before that move, and redo directly after an undo restores the state
\* and the winner the undo found.
C3_UndoRedoRestore ==
    [][ /\ (moving(call.op) /\ call.ret /\ call'.op = "undo")
           => (call'.ret /\ state' = before.state)
        /\ (call.op = "undo" /\ call.ret /\ call'.op = "redo")
           => (call'.ret /\ state' = before.state /\ winner' = before.winner) ]_vars

\* A winning move was made, undone and redone.
C3_Witness ==
    /\ call = [op |-> "redo", ret |-> TRUE]
    /\ ncalls = 3
    /\ before.winner = None
    /\ winner = 1
    /\ state.pos[1][2] = goal_row(1)

\* The line of play from the new game to the current state.
line == history.undo_stack \o <<state>>

\* The walls on the board that player i placed: the steps of the line of
\* play at which it was i's turn and the wall list grew.
placed_by(i) ==
    Cardinality({ j \in 1..Len(history.undo_stack) :
                    /\ line[j].current_player = i
                    /\ Len(line[j + 1].walls) = Len(line[j].walls) + 1 })

\* C4: a player's remaining walls plus the walls of that player on the board
\* are 10; the two counts and the walls on the board add up to 20.
C4_WallsConserved ==
    /\ \A i \in Players :
         /\ state.walls_left[i] + placed_by(i) = INITIAL_WALLS
         /\ 0 <= state.walls_left[i]
         /\ state.walls_left[i] <= INITIAL_WALLS
    /\ placed_by(0) + placed_by(1) = Len(state.walls)
    /\ state.walls_left[0] + state.walls_left[1] + Len(state.walls) = 2 * INITIAL_WALLS

\* Player 0 has no wall left and an undo gave player 1 a wall back.
C4_Witness ==
    /\ call = [op |-> "undo", ret |-> TRUE]
    /\ state.walls_left[0] = 0
    /\ before.state.walls_left[1] = INITIAL_WALLS - 1
    /\ state.walls_left[1] = INITIAL_WALLS

\* C5: the pawns are on the board on different cells, and get_valid_moves
\* returns neither the opponent's cell nor the mover's nor a cell off the board.
C5_PawnsApart ==
    /\ state.pos[0] # state.pos[1]
    /\ \A i \in Players :
         /\ is_on_board(state.pos[i][1], state.pos[i][2])
         /\ \A m \in range(get_valid_moves(state, i)) :
              /\ is_on_board(m[1], m[2])
              /\ m # state.pos[i]
              /\ m # state.pos[1 - i]

\* A pawn took a side step around the opponent.
C5_Witness ==
    /\ call = [op |-> "move_pawn", ret |-> TRUE]
    /\ LET i == before.state.current_player
       IN  /\ abs(state.pos[i][1] - before.state.pos[i][1]) = 1
           /\ abs(state.pos[i][2] - before.state.pos[i][2]) = 1

\* C6: the turn passes to the other player when move_pawn or place_wall
\* returns True and stays where it is when a call returns False; the accepted
\* moves of the line of play are made by players 0, 1, 0, 1, ...
C6_TurnAlternates ==
    /\ [](\A j \in 1..Len(line) : line[j].current_player = (j - 1) % 2)
    /\ [][ /\ (moving(call'.op) /\ call'.ret)
              => state'.current_player = 1 - state.current_player
           /\ ~call'.ret => state'.current_player = state.current_player ]_vars

\* Player 1 placed a wall and the turn went to player 0.
C6_Witness ==
    /\ call = [op |-> "place_wall", ret |-> TRUE]
    /\ before.state.current_player = 1
    /\ state.current_player = 0

\* C7: while the game is over move_pawn and place_wall return False and leave
\* the state, the winner and both stacks alone, and only undo and reset end
\* the Over condition.
C7_OverRejects ==
    [][ winner # None =>
          /\ moving(call'.op) =>
               /\ ~call'.ret
               /\ state' = state
               /\ winner' = winner
               /\ history' = history
          /\ call'.op \notin {"undo", "reset"} => winner' = winner ]_vars

\* A move was tried and refused after the game was won.
C7_Witness ==
    /\ call = [op |-> "move_pawn", ret |-> FALSE]
    /\ before.winner # None
    /\ winner # None

\* C8: an accepted move_pawn ends the game exactly when the mover has reached
\* its own goal row, the winner is then the mover; an accepted place_wall
\* leaves the winner as it is.
C8_WinnerIsMover ==
    [][ /\ (call'.op = "move_pawn" /\ call'.ret) =>
             LET i == state.current_player
             IN  /\ winner' # None <=> state'.pos[i][2] = goal_row(i)
                 /\ winner' # None => winner' = i
        /\ (call'.op = "place_wall" /\ call'.ret) => winner' = winner ]_vars

\* Player 1 made the winning move.
C8_Witness ==
    /\ call = [op |-> "move_pawn", ret |-> TRUE]
    /\ before.winner = None
    /\ before.state.current_player = 1
    /\ winner = 1

----------------------------------------------------------------------------
(* Properties of get_valid_moves, checked under SpecMoves *)

\* Player i's pawn has the opponent next to it in direction d, no wall
\* between the two.
faces(gs, i, d) ==
    /\ gs.pos[1 - i] = step(gs.pos[i], d)
    /\ ~wall_blocks_move(gs.walls, gs.pos[i], gs.pos[1 - i])

\* The cells left and right of cell o for a pawn that arrives in direction d.
side_cells(o, d) == { <<o[1] + d[2], o[2] + d[1]>>, <<o[1] - d[2], o[2] - d[1]>> }

\* The plain steps of the pawn on cell c in the directions other than d.
other_steps(gs, c, d) ==
    { step(c, directions[k]) : k \in { n \in 1..4 :
        /\ directions[n] # d
        /\ step(c, directions[n]) \in Cells
        /\ ~wall_blocks_move(gs.walls, c, step(c, directions[n])) } }

\* C9: with the opponent next to the mover and the cell beyond it on the board
\* and not walled off, the direction contributes the straight jump only: the
\* result is that cell and the plain steps of the other directions, without
\* the opponent's cell and the cells beside the opponent.
C9_StraightJumpOnly ==
    call.op = "get_valid_moves" =>
        \A k \in 1..4 :
            LET i == call.player
                d == directions[k]
                o == state.pos[1 - i]
                j == step(o, d)
            IN  (/\ faces(state, i, d)
                 /\ j \in Cells
                 /\ ~wall_blocks_move(state.walls, o, j))
                => /\ range(call.ret) = {j} \cup other_steps(state, state.pos[i], d)
                   /\ j \in range(call.ret)
                   /\ o \notin range(call.ret)
                   /\ side_cells(o, d) \cap range(call.ret) = {}

\* The straight jump was returned with walls beside the opponent.
C9_Witness ==
    /\ call.op = "get_valid_moves"
    /\ Len(state.walls) = MaxFixtureWalls
    /\ \E k \in 1..4 :
         /\ faces(state, call.player, directions[k])
         /\ step(state.pos[1 - call.player], directions[k]) \in range(call.ret)

\* C10: with the opponent next to the mover and one wall on the board, right
\* behind the opponent, the result holds the cells beside the opponent that
\* are on the board, and neither the cell beyond the opponent nor the
\* opponent's cell.
C10_SideSteps ==
    call.op = "get_valid_moves" =>
        \A k \in 1..4 :
            LET i == call.player
                d == directions[k]
                o == state.pos[1 - i]
                j == step(o, d)
            IN  (/\ faces(state, i, d)
                 /\ Len(state.walls) = 1
                 /\ j \in Cells
                 /\ wall_blocks_move(state.walls, o, j))
                => /\ side_cells(o, d) \cap Cells \subseteq range(call.ret)
                   /\ j \notin range(call.ret)
                   /\ o \notin range(call.ret)

\* Both cells beside the opponent were returned, the jump being walled off.
C10_Witness ==
    /\ call.op = "get_valid_moves"
    /\ Len(state.walls) = 1
    /\ \E k \in 1..4 :
         LET o == state.pos[1 - call.player]
         IN  /\ faces(state, call.player, directions[k])
             /\ step(o, directions[k]) \in Cells
             /\ wall_blocks_move(state.walls, o, step(o, directions[k]))
             /\ side_cells(o, directions[k]) \subseteq range(call.ret)

----------------------------------------------------------------------------
(* Walls next to walls, checked under Spec *)

Slots == { <<x, y>> : x \in 0..(BOARD_SIZE - 2), y \in 0..(BOARD_SIZE - 2) }

\* The slots next to slot (x, y) along the axis of a wall of this orientation.
along(x, y, orientation) ==
    IF orientation = "H" THEN { <<x - 1, y>>, <<x + 1, y>> }
    ELSE { <<x, y - 1>>, <<x, y + 1>> }

\* The new game after place_wall(3, 3, "H").
AfterH33 == Game_place_wall(Game, 3, 3, "H").g

\* C11: place_wall is refused for every slot and orientation with a wall of
\* the same orientation in the next slot along the wall's axis, so no two
\* such walls are on the board; and in the new game after an accepted "H"
\* wall at (3,3), "H" walls at (4,3) and (2,3) are refused while "H" walls
\* at (3,5) and, two slots along the axis, at (5,3) are accepted.
C11_AdjacentRejected ==
    /\ \A s \in Slots, o \in {"H", "V"} :
         (\E n \in along(s[1], s[2], o) : contains(state.walls, <<o, n[1], n[2]>>))
         => LET r == Game_place_wall(game, s[1], s[2], o)
            IN  ~r.ret /\ r.g.state = state
    /\ \A i, j \in DOMAIN state.walls :
         LET v == state.walls[i]
             w == state.walls[j]
         IN  (v[1] = w[1] /\ v[1] \in {"H", "V"})
             => <<w[2], w[3]>> \notin along(v[2], v[3], v[1])
    /\ (state = AfterH33.state /\ winner = None)
       => /\ ~Game_place_wall(game, 4, 3, "H").ret
          /\ ~Game_place_wall(game, 2, 3, "H").ret
          /\ Game_place_wall(game, 3, 5, "H").ret
          /\ Game_place_wall(game, 5, 3, "H").ret

\* In the new game an "H" wall at (3,3) was accepted and then an "H" wall at
\* (3,5), (4,3) being among the walls tried.
C11_Witness ==
    /\ call = [op |-> "place_wall", ret |-> TRUE]
    /\ before.state = AfterH33.state
    /\ state.walls = << <<"H", 3, 3>>, <<"H", 3, 5>> >>
    /\ <<4, 3, "H">> \in WallArgs

\* C12: in the new game after an accepted "H" wall at (3,3), place_wall for
\* the "V" wall at (3,4) returns False and leaves the wall list as it was.
C12_CrossingRejected ==
    (state = AfterH33.state /\ winner = None)
    => LET r == Game_place_wall(game, 3, 4, "V")
       IN  ~r.ret /\ r.g.state.walls = state.walls

\* C13: a placement on a slot that holds a wall of either orientation is
\* refused, so in every reachable state no two walls of the board are
\* anchored at the same slot.
C13_OneWallPerSlot ==
    \A i, j \in DOMAIN state.walls :
        i # j => <<state.walls[i][2], state.walls[i][3]>>
                 # <<state.walls[j][2], state.walls[j][3]>>

----------------------------------------------------------------------------
(* The rule functions applied to games under way *)

\* float('inf'): above every path length and every score.
inf == 1000000

\* The search of get_shortest_path_length, one distance level of the queue
\* at a time: dist is the distance of the cells of the frontier.
RECURSIVE bfs_distance(_, _, _, _, _)
bfs_distance(walls, goal, frontier, visited, dist) ==
    IF frontier = {} THEN inf
    ELSE IF \E c \in frontier : c[2] = goal THEN dist
    ELSE LET next == UNION { bfs_neighbours(walls, c, visited) : c \in frontier }
         IN  bfs_distance(walls, goal, next, visited \cup next, dist + 1)

\* get_shortest_path_length counting the start cell as one step.
get_shortest_path_length_from_one(game_state, player_index) ==
    bfs_distance(game_state.walls, goal_row(player_index),
                 {game_state.pos[player_index]}, {game_state.pos[player_index]}, 1)

get_shortest_path_length(game_state, player_index) ==
    bfs_distance(game_state.walls, goal_row(player_index),
                 {game_state.pos[player_index]}, {game_state.pos[player_index]}, 0)

\* Coordinates handed to is_valid_wall_placement: the slot grid and one step
\* beyond it on each side.
SlotArgs == (0 - 1)..(BOARD_SIZE - 1)

\* Orientations handed to it: the two of the game and one that is neither.
OrientationArgs == {"H", "V", "X"}

InitRules ==
    /\ \E g \in Openings \cup {AfterH33} :
         /\ state = g.state
         /\ history = g.history
         /\ winner = g.winner
    /\ call = [op |-> "new", ret |-> TRUE]
    /\ before = [state |-> state, winner |-> winner]
    /\ ncalls = 0

IsValidWallPlacement ==
    /\ ncalls = 0
    /\ \E x \in SlotArgs, y \in SlotArgs, orientation \in OrientationArgs :
         LET r == is_valid_wall_placement(state, x, y, orientation)
         IN  /\ state' = r.gs
             /\ call' = [op  |-> "is_valid_wall_placement",
                         arg |-> <<x, y, orientation>>,
                         ret |-> r.ret]
    /\ before' = [state |-> state, winner |-> winner]
    /\ ncalls' = 1
    /\ UNCHANGED <<history, winner>>

GetShortestPathLength ==
    /\ ncalls = 0
    /\ \E i \in Players :
         call' = [op     |-> "get_shortest_path_length",
                  player |-> i,
                  ret    |-> get_shortest_path_length(state, i)]
    /\ ncalls' = 1
    /\ UNCHANGED <<state, history, winner, before>>

\* Game.place_wall called once with arguments from the slot grid and around.
PlaceWallAt ==
    /\ ncalls = 0
    /\ \E x \in SlotArgs, y \in SlotArgs, orientation \in OrientationArgs :
         LET r == Game_place_wall(game, x, y, orientation)
         IN  /\ state' = r.g.state
             /\ history' = r.g.history
             /\ winner' = r.g.winner
             /\ call' = [op  |-> "place_wall",
                         arg |-> <<x, y, orientation>>,
                         ret |-> r.ret]
    /\ before' = [state |-> state, winner |-> winner]
    /\ ncalls' = 1

\* wall_blocks_move called once on the walls of the game, for a cell of the
\* board and the cell one step from it in one of the four directions.
WallBlocksMove ==
    /\ ncalls = 0
    /\ \E from_pos \in Cells, k \in DOMAIN directions :
         LET to_pos == step(from_pos, directions[k])
         IN  /\ is_on_board(to_pos[1], to_pos[2])
             /\ call' = [op  |-> "wall_blocks_move",
                         arg |-> <<from_pos, to_pos>>,
                         ret |-> wall_blocks_move(state.walls, from_pos, to_pos)]
    /\ ncalls' = 1
    /\ UNCHANGED <<state, history, winner, before>>

NextRules ==
    \/ IsValidWallPlacement
    \/ GetShortestPathLength
    \/ GetValidMoves
    \/ PlaceWallAt
    \/ WallBlocksMove

SpecRules == InitRules /\ [][NextRules]_vars

\* The state with the wall of the last is_valid_wall_placement call added.
tentative == [before.state EXCEPT !.walls = Append(before.state.walls,
                                   <<call.arg[3], call.arg[1], call.arg[2]>>)]

\* C14: is_valid_wall_placement returns with the wall list, and the rest of
\* the state, exactly as the call found it, for arguments off the slot grid,
\* walls already on the board, walls next to a wall of their orientation,
\* walls that cut off a player, and legal walls.
C14_WallListRestored ==
    call.op = "is_valid_wall_placement" => state = before.state

\* is_valid_wall_placement returned False for a wall on a free slot, with no
\* wall next to it, that leaves player 0 a path and player 1 none.
C14_Witness ==
    /\ call.op = "is_valid_wall_placement"
    /\ ~call.ret
    /\ call.arg = <<4, 7, "V">>
    /\ before.state = Boxed.state
    /\ has_path_to_goal(tentative, 0)
    /\ ~has_path_to_goal(tentative, 1)

\* C15: in the state of a new game the shortest path of player 0 has length
\* 8 and get_valid_moves returns for player 0 the three cells (3,0), (5,0)
\* and (4,1) and no other.
C15_NewGameFixture ==
    /\ (call.op = "get_shortest_path_length" /\ call.player = 0 /\ state = GameState)
       => call.ret = 8
    /\ (call.op = "get_valid_moves" /\ call.player = 0 /\ state = GameState)
       => (Len(call.ret) = 3 /\ range(call.ret) = { <<3, 0>>, <<5, 0>>, <<4, 1>> })

\* get_shortest_path_length was applied to player 0 in the state of a new
\* game, where get_valid_moves gives player 0 three cells.
C15_Witness ==
    /\ call.op = "get_shortest_path_length"
    /\ call.player = 0
    /\ state = GameState
    /\ state.pos = (0 :> <<4, 0>> @@ 1 :> <<4, 8>>)
    /\ state.walls = << >>
    /\ Len(get_valid_moves(state, 0)) = 3

----------------------------------------------------------------------------
(* Undo and redo at the ends of the history, checked under Spec *)

\* The last call returned False and changed nothing.
refused_without_effect ==
    /\ ~call'.ret
    /\ state' = state
    /\ winner' = winner
    /\ history' = history

\* C16: undo with an empty undo stack and redo with an empty redo stack
\* return False and leave the state, the winner and both stacks as they were.
C16_EmptyStacks ==
    [][ /\ (call'.op = "undo" /\ history.undo_stack = << >>) => refused_without_effect
        /\ (call'.op = "redo" /\ history.redo_stack = << >>) => refused_without_effect ]_vars

\* A move was made and undone, and a second undo found the undo stack empty
\* and the redo stack holding the move.
C16_Witness ==
    /\ call = [op |-> "undo", ret |-> FALSE]
    /\ ncalls = 3
    /\ history.undo_stack = << >>
    /\ Len(history.redo_stack) = 1
    /\ state = GameState

\* C17: after every accepted move_pawn or place_wall the redo stack is empty,
\* and a redo called directly after it returns False and changes nothing.
C17_RedoCleared ==
    /\ [](moving(call.op) /\ call.ret => history.redo_stack = << >>)
    /\ [][ (moving(call.op) /\ call.ret /\ call'.op = "redo")
           => refused_without_effect ]_vars

\* From the game with the pawns face to face the last move was undone,
\* another move was made in its place, and redo then returned False.
C17_Witness ==
    /\ call = [op |-> "redo", ret |-> FALSE]
    /\ ncalls = 3
    /\ history.undo_stack = FaceOff.history.undo_stack
    /\ history.redo_stack = << >>
    /\ state # FaceOff.state
    /\ state # last(history.undo_stack)

----------------------------------------------------------------------------
(* AI opponent: get_move returns a move ("pawn", (x, y)) or
   ("wall", (x, y, orientation)), or None. A strategy that draws at random is
   the set of the moves it can return. *)

\* float('nan'): what float('inf') - float('inf') gives; every comparison
\* with it is false.
nan == 2000001

\* a <= b holding two points early.
le_two_early(a, b) == a # nan /\ b # nan /\ a <= b + 2

\* a > b, a < b and a <= b on integers, inf, -inf and nan.
gt(a, b) == a # nan /\ b # nan /\ a > b

lt(a, b) == a # nan /\ b # nan /\ a < b

le(a, b) == a # nan /\ b # nan /\ a <= b

\* max(a, b) and min(a, b) as Python computes them: b only if it compares
\* beyond a.
float_max(a, b) == IF gt(b, a) THEN b ELSE a

float_min(a, b) == IF lt(b, a) THEN b ELSE a

evaluate_position(game_state, player_index) ==
    LET my_path       == get_shortest_path_length(game_state, player_index)
        opponent_path == get_shortest_path_length(game_state, 1 - player_index)
    IN  IF my_path = inf /\ opponent_path = inf THEN nan
        ELSE IF opponent_path = inf THEN inf
        ELSE IF my_path = inf THEN 0 - inf
        ELSE opponent_path - my_path

\* The (x, y, orientation) of the three nested loops, in their order.
wall_candidates ==
    [ k \in 1..(2 * (BOARD_SIZE - 1) * (BOARD_SIZE - 1)) |->
        << (k - 1) \div (2 * (BOARD_SIZE - 1)),
           ((k - 1) % (2 * (BOARD_SIZE - 1))) \div 2,
           IF (k - 1) % 2 = 0 THEN "H" ELSE "V" >> ]

\* get_all_valid_wall_placements without the test of walls_left.
get_all_valid_wall_placements_any_count(game_state, player_index) ==
    LET valid(w) == is_valid_wall_placement(game_state, w[1], w[2], w[3]).ret
    IN  SelectSeq(wall_candidates, valid)

\* get_all_valid_wall_placements without the call of is_valid_wall_placement.
get_all_valid_wall_placements_unchecked(game_state, player_index) ==
    IF game_state.walls_left[player_index] <= 0 THEN << >>
    ELSE wall_candidates

get_all_valid_wall_placements(game_state, player_index) ==
    LET valid(w) == is_valid_wall_placement(game_state, w[1], w[2], w[3]).ret
    IN  IF game_state.walls_left[player_index] <= 0 THEN << >>
        ELSE SelectSeq(wall_candidates, valid)

\* The game state after is_valid_wall_placement was called on it for the
\* candidates k, k + 1, ..., stop in turn; x is the state after the call for
\* candidate k, computed once.
RECURSIVE probed(_, _, _)
probed(game_state, k, stop) ==
    IF k > stop THEN game_state
    ELSE CHOOSE gs \in { probed(x, k + 1, stop) :
                             x \in { is_valid_wall_placement(game_state,
                                                             wall_candidates[k][1],
                                                             wall_candidates[k][2],
                                                             wall_candidates[k][3]).gs } } : TRUE

\* The outer loop: the candidates of column x, then those of the columns
\* after it; s is the state after column x, computed once.
RECURSIVE probed_columns(_, _)
probed_columns(game_state, x) ==
    IF x >= BOARD_SIZE - 1 THEN game_state
    ELSE CHOOSE gs \in { probed_columns(s, x + 1) :
                             s \in { probed(game_state,
                                            2 * (BOARD_SIZE - 1) * x + 1,
                                            2 * (BOARD_SIZE - 1) * (x + 1)) } } : TRUE

\* get_all_valid_wall_placements leaving the last candidate on the board.
get_all_valid_wall_placements_leaves_last(game_state, player_index) ==
    IF game_state.walls_left[player_index] <= 0 THEN game_state
    ELSE [game_state EXCEPT !.walls = Append(@, <<"V", BOARD_SIZE - 2, BOARD_SIZE - 2>>)]

\* The game state handed to get_all_valid_wall_placements, as the call leaves
\* it: the checks are made on that state, not on a copy.
get_all_valid_wall_placements_leaves(game_state, player_index) ==
    IF game_state.walls_left[player_index] <= 0 THEN game_state
    ELSE probed_columns(game_state, 0)

\* The states the game state goes through while is_valid_wall_placement is
\* called on it for the candidates k, ..., stop in turn, added to seen, and
\* the state after the last call; d is the call for candidate k, computed once.
RECURSIVE probing(_, _, _)
probing(at, k, stop) ==
    IF k > stop THEN at
    ELSE CHOOSE r \in { probing([seen |-> at.seen \cup d.seen, gs |-> d.gs], k + 1, stop) :
                            d \in { is_valid_wall_placement_during(at.gs,
                                                                   wall_candidates[k][1],
                                                                   wall_candidates[k][2],
                                                                   wall_candidates[k][3]) } } : TRUE

\* The outer loop: the candidates of column x, then the columns after it.
RECURSIVE probing_columns(_, _)
probing_columns(at, x) ==
    IF x >= BOARD_SIZE - 1 THEN at
    ELSE CHOOSE r \in { probing_columns(s, x + 1) :
                            s \in { probing(at,
                                            2 * (BOARD_SIZE - 1) * x + 1,
                                            2 * (BOARD_SIZE - 1) * (x + 1)) } } : TRUE

\* The states the game state handed to get_all_valid_wall_placements goes
\* through during the call.
get_all_valid_wall_placements_during(game_state, player_index) ==
    IF game_state.walls_left[player_index] <= 0 THEN { game_state }
    ELSE probing_columns([seen |-> { game_state }, gs |-> game_state], 0).seen

pawn(m) == [type |-> "pawn", data |-> m]

wall(w) == [type |-> "wall", data |-> w]

\* The None of a strategy that has no move to return.
NoMove == [type |-> "None", data |-> << >>]

\* _easy_strategy taking its wall branch whatever walls_left is, the walls
\* drawn from all valid placements.
easy_strategy_ignores_count(game_state, player_index) ==
    LET valid_moves == get_valid_moves(game_state, player_index)
        valid(w)    == is_valid_wall_placement(game_state, w[1], w[2], w[3]).ret
        valid_walls == SelectSeq(wall_candidates, valid)
        move_pawn   == IF valid_moves = << >> THEN {NoMove}
                       ELSE { pawn(m) : m \in range(valid_moves) }
        place_wall_ == IF valid_walls = << >> THEN move_pawn
                       ELSE { wall(w) : w \in range(valid_walls) }
    IN  move_pawn \cup place_wall_

\* _easy_strategy drawing its pawn move from all valid moves.
easy_strategy_any_pawn(game_state, player_index) ==
    LET valid_moves == get_valid_moves(game_state, player_index)
        move_pawn   == IF valid_moves = << >> THEN {NoMove}
                       ELSE { pawn(m) : m \in range(valid_moves) }
        valid_walls == get_all_valid_wall_placements(game_state, player_index)
        place_wall_ == IF valid_walls = << >> THEN move_pawn
                       ELSE { wall(w) : w \in range(valid_walls) }
    IN  IF game_state.walls_left[player_index] = 0 THEN move_pawn
        ELSE move_pawn \cup place_wall_

\* random.random() < 0.8 holds or not; random.choice returns any element.
easy_strategy(game_state, player_index) ==
    LET valid_moves == get_valid_moves(game_state, player_index)
        goal        == goal_row(player_index)
        current_y   == game_state.pos[player_index][2]
        closer(m)   == abs(m[2] - goal) < abs(current_y - goal)
        best_moves  == IF SelectSeq(valid_moves, closer) = << >> THEN valid_moves
                       ELSE SelectSeq(valid_moves, closer)
        move_pawn   == IF valid_moves = << >> THEN {NoMove}
                       ELSE { pawn(m) : m \in range(best_moves) }
        valid_walls == get_all_valid_wall_placements(game_state, player_index)
        place_wall_ == IF valid_walls = << >>
                       THEN IF valid_moves # << >>
                            THEN { pawn(m) : m \in range(valid_moves) }
                            ELSE {NoMove}
                       ELSE { wall(w) : w \in range(valid_walls) }
    IN  IF game_state.walls_left[player_index] = 0 THEN move_pawn
        ELSE move_pawn \cup place_wall_

\* Walls the medium strategy scores, at most.
MEDIUM_SAMPLE == 20

\* Walls a node of the hard strategy's search scores, at most.
HARD_SAMPLE == 10

\* The loop "if score > best_score: best_score = score; best = item" run over
\* items from position k on, scores[j] being the score of items[j].
RECURSIVE best_scored(_, _, _, _)
best_scored(items, scores, k, best) ==
    IF k > Len(items) THEN best
    ELSE best_scored(items, scores, k + 1,
                     IF gt(scores[k], best.score)
                     THEN [found |-> TRUE, item |-> items[k], score |-> scores[k]]
                     ELSE best)

\* best_move = None, best_score = float('-inf').
nothing_scored == [found |-> FALSE, item |-> << >>, score |-> 0 - inf]

\* What the loop over walls_to_check can leave as the best wall.
\* random.sample returns any size distinct walls of valid_walls in any
\* order: wall k is the best of such a sample exactly when size - 1 other
\* walls score no higher than it, and no wall is best exactly when size
\* walls have a score that is not above -inf.
best_sampled(valid_walls, scores, size) ==
    IF Len(valid_walls) <= size
    THEN { best_scored(valid_walls, scores, 1, nothing_scored) }
    ELSE { [found |-> TRUE, item |-> valid_walls[k], score |-> scores[k]] :
             k \in { k \in DOMAIN valid_walls :
                       /\ gt(scores[k], 0 - inf)
                       /\ Cardinality({ j \in DOMAIN valid_walls :
                                          j # k /\ ~gt(scores[j], scores[k]) })
                          >= size - 1 } }
         \cup { b \in {nothing_scored} :
                  Cardinality({ j \in DOMAIN valid_walls : ~gt(scores[j], 0 - inf) })
                  >= size }

\* score > best_pawn_score + 1.5 read as score >= best_pawn_score + 1.
beats_by_one(wall_score, pawn_score) ==
    /\ wall_score # nan
    /\ pawn_score # nan
    /\ wall_score > pawn_score

\* score > best_pawn_score + 1.5, the scores being integers or infinite.
beats(wall_score, pawn_score) ==
    /\ wall_score # nan
    /\ pawn_score # nan
    /\ 2 * wall_score > 2 * pawn_score + 3

\* The scores are lists: the concatenation with the empty list makes each a
\* tuple whose elements are computed once.
medium_strategy(game_state, player_index) ==
    LET valid_moves  == get_valid_moves(game_state, player_index)
        moved(m)     == [game_state EXCEPT !.pos[player_index] = m]
        pawn_scores  == [ k \in DOMAIN valid_moves |->
                            evaluate_position(moved(valid_moves[k]), player_index) ]
                        \o << >>
        best_pawn    == best_scored(valid_moves, pawn_scores, 1, nothing_scored)
        valid_walls  == get_all_valid_wall_placements(game_state, player_index)
        walled(w)    == [game_state EXCEPT !.walls = Append(@, <<w[3], w[1], w[2]>>)]
        wall_scores  == [ k \in DOMAIN valid_walls |->
                            evaluate_position(walled(valid_walls[k]), player_index) ]
                        \o << >>
        best_walls   == IF game_state.walls_left[player_index] > 0
                        THEN best_sampled(valid_walls, wall_scores, MEDIUM_SAMPLE)
                        ELSE { nothing_scored }
    IN  { IF best_wall.found /\ beats(best_wall.score, best_pawn.score)
          THEN wall(best_wall.item)
          ELSE IF best_pawn.found THEN pawn(best_pawn.item)
          ELSE NoMove : best_wall \in best_walls }

\* Plies the hard strategy looks ahead.
HARD_DEPTH == 3

\* The score of a position in which a pawn stands on its goal row.
WIN_SCORE == 1000

\* The private copy of the state with a candidate move made by player i.
temp_state(game_state, i, move) ==
    IF move.type = "pawn"
    THEN [game_state EXCEPT !.pos[i] = move.data]
    ELSE [game_state EXCEPT
            !.walls = Append(@, <<move.data[3], move.data[1], move.data[2]>>),
            !.walls_left[i] = @ - 1]

\* The body of a loop of _minimax after the child for move returned
\* eval_score: node is the record of max_eval or min_eval, best_move, alpha
\* and beta. children lists the moves whose child was searched; cut is the
\* number of children that had been searched when beta <= alpha first held,
\* 0 while it has not held.
minimax_step(maximizing_player, node, move, eval_score) ==
    LET better == IF maximizing_player THEN gt(eval_score, node.eval)
                  ELSE lt(eval_score, node.eval)
        alpha_ == IF maximizing_player THEN float_max(node.alpha, eval_score)
                  ELSE node.alpha
        beta_  == IF maximizing_player THEN node.beta
                  ELSE float_min(node.beta, eval_score)
    IN  [eval     |-> IF better THEN eval_score ELSE node.eval,
         move     |-> IF better THEN move ELSE node.move,
         alpha    |-> alpha_,
         beta     |-> beta_,
         children |-> Append(node.children, move),
         cut      |-> IF node.cut = 0 /\ le(beta_, alpha_)
                      THEN Len(node.children) + 1 ELSE node.cut]

\* _minimax returns the set of the (score, move) it can return.
\* minimax_loop runs one of its loops over the candidate moves, in their
\* order, from node up to the end of the list or the break. minimax_sample
\* runs a loop over walls_to_check where random.sample draws it: each pass
\* takes any of valid_walls not taken before, left passes remain.
\* minimax_node is the node after the pawn loop and the wall loop.
RECURSIVE minimax(_, _, _, _, _, _)
RECURSIVE minimax_loop(_, _, _, _, _, _)
RECURSIVE minimax_sample(_, _, _, _, _, _, _)
RECURSIVE minimax_node(_, _, _, _, _, _)
minimax_loop(player_index, game_state, depth, maximizing_player, moves, node) ==
    IF moves = << >> THEN { node }
    ELSE LET current_player_idx == IF maximizing_player THEN player_index
                                   ELSE 1 - player_index
             move  == Head(moves)
             temp  == temp_state(game_state, current_player_idx, move)
         IN  UNION { LET n == minimax_step(maximizing_player, node, move, r.score)
                     IN  IF le(n.beta, n.alpha) THEN { n }
                         ELSE minimax_loop(player_index, game_state, depth,
                                           maximizing_player, Tail(moves), n) :
                     r \in minimax(player_index, temp, depth - 1,
                                   node.alpha, node.beta, ~maximizing_player) }

minimax_sample(player_index, game_state, depth, maximizing_player, valid_walls, left, node) ==
    IF left = 0 THEN { node }
    ELSE LET current_player_idx == IF maximizing_player THEN player_index
                                   ELSE 1 - player_index
             taken == { node.children[k] : k \in DOMAIN node.children }
         IN  UNION { UNION { LET n == minimax_step(maximizing_player, node, move, r.score)
                             IN  IF le(n.beta, n.alpha) THEN { n }
                                 ELSE minimax_sample(player_index, game_state, depth,
                                                     maximizing_player, valid_walls,
                                                     left - 1, n) :
                             r \in minimax(player_index,
                                           temp_state(game_state, current_player_idx, move),
                                           depth - 1, node.alpha, node.beta,
                                           ~maximizing_player) } :
                     move \in { wall(w) : w \in range(valid_walls) } \ taken }

minimax_node(player_index, game_state, depth, alpha, beta, maximizing_player) ==
    LET current_player_idx == IF maximizing_player THEN player_index
                              ELSE 1 - player_index
        valid_moves == get_valid_moves(game_state, current_player_idx)
        pawns       == [ k \in DOMAIN valid_moves |-> pawn(valid_moves[k]) ]
        first       == [eval     |-> IF maximizing_player THEN 0 - inf ELSE inf,
                        move     |-> NoMove,
                        alpha    |-> alpha,
                        beta     |-> beta,
                        children |-> << >>,
                        cut      |-> 0]
        after_pawns == minimax_loop(player_index, game_state, depth,
                                    maximizing_player, pawns, first)
        valid_walls == get_all_valid_wall_placements(game_state, current_player_idx)
    IN  IF game_state.walls_left[current_player_idx] > 0
        THEN UNION { IF Len(valid_walls) > HARD_SAMPLE
                     THEN minimax_sample(player_index, game_state, depth,
                                         maximizing_player, valid_walls, HARD_SAMPLE, n)
                     ELSE minimax_loop(player_index, game_state, depth,
                                       maximizing_player,
                                       [ k \in DOMAIN valid_walls |-> wall(valid_walls[k]) ],
                                       n) :
                     n \in after_pawns }
        ELSE after_pawns

minimax(player_index, game_state, depth, alpha, beta, maximizing_player) ==
    IF depth = 0
    THEN { [score |-> evaluate_position(game_state, player_index), move |-> NoMove] }
    ELSE IF game_state.pos[0][2] = goal_row(0)
    THEN { [score |-> IF player_index = 0 THEN WIN_SCORE ELSE 0 - WIN_SCORE,
            move  |-> NoMove] }
    ELSE IF game_state.pos[1][2] = goal_row(1)
    THEN { [score |-> IF player_index = 1 THEN WIN_SCORE ELSE 0 - WIN_SCORE,
            move  |-> NoMove] }
    ELSE { [score |-> n.eval, move |-> n.move] :
             n \in minimax_node(player_index, game_state, depth, alpha, beta,
                                maximizing_player) }

\* _hard_strategy without the fallback to the medium strategy.
hard_strategy_no_fallback(game_state, player_index) ==
    { r.move : r \in minimax(player_index, game_state, HARD_DEPTH, 0 - inf, inf, TRUE) }

hard_strategy(game_state, player_index) ==
    UNION { IF r.move # NoMove THEN { r.move }
            ELSE medium_strategy(game_state, player_index) :
            r \in minimax(player_index, game_state, HARD_DEPTH, 0 - inf, inf, TRUE) }

\* str.lower() on the difficulty tags handed to the constructor.
lower(tag) ==
    CASE tag = "Hard" -> "hard"
      [] tag = "Medium" -> "medium"
      [] tag = "Expert" -> "expert"
      [] OTHER -> tag

QuoridorAI(player_index, difficulty) ==
    [player_index |-> player_index, difficulty |-> lower(difficulty)]

\* get_move sending a tag that names no strategy to the easy strategy.
get_move_else_easy(ai, game_state) ==
    IF ai.difficulty = "easy" THEN easy_strategy(game_state, ai.player_index)
    ELSE IF ai.difficulty = "medium" THEN medium_strategy(game_state, ai.player_index)
    ELSE IF ai.difficulty = "hard" THEN hard_strategy(game_state, ai.player_index)
    ELSE easy_strategy(game_state, ai.player_index)

get_move(ai, game_state) ==
    IF ai.difficulty = "easy" THEN easy_strategy(game_state, ai.player_index)
    ELSE IF ai.difficulty = "medium" THEN medium_strategy(game_state, ai.player_index)
    ELSE IF ai.difficulty = "hard" THEN hard_strategy(game_state, ai.player_index)
    ELSE medium_strategy(game_state, ai.player_index)

\* The game state handed to get_move, as the call can leave it. The easy
\* strategy lists the wall placements in its wall branch only; the medium
\* strategy and the root node of the search list them when the player holds
\* a wall; every other change is made on a deep copy.
get_move_leaves(ai, game_state) ==
    IF ai.difficulty = "easy"
    THEN { game_state }
         \cup IF game_state.walls_left[ai.player_index] = 0 THEN {}
              ELSE { get_all_valid_wall_placements_leaves(game_state, ai.player_index) }
    ELSE IF game_state.walls_left[ai.player_index] > 0
    THEN { get_all_valid_wall_placements_leaves(game_state, ai.player_index) }
    ELSE { game_state }

\* The states the game state handed to get_move goes through during the
\* call, over all its runs: the strategies change it only where they call
\* get_all_valid_wall_placements on it.
get_move_during(ai, game_state) ==
    IF ai.difficulty = "easy"
    THEN { game_state }
         \cup IF game_state.walls_left[ai.player_index] = 0 THEN {}
              ELSE get_all_valid_wall_placements_during(game_state, ai.player_index)
    ELSE IF game_state.walls_left[ai.player_index] > 0
    THEN get_all_valid_wall_placements_during(game_state, ai.player_index)
    ELSE { game_state }

----------------------------------------------------------------------------
(* get_move applied to games under way *)

\* Calls that follow the game WallsOut. Player 1 places its ten walls, player
\* 0 stepping aside and back: no player holds a wall, player 0 to move.
NoWallsCalls ==
    << mv(3, 0), wl(1, 2, "V"), mv(4, 0), wl(3, 2, "V"), mv(3, 0), wl(5, 2, "V"),
       mv(4, 0), wl(2, 7, "V"), mv(3, 0), wl(5, 7, "V"), mv(4, 0), wl(3, 3, "H"),
       mv(3, 0), wl(6, 2, "H"), mv(4, 0), wl(5, 4, "V"), mv(3, 0), wl(3, 6, "H"),
       mv(4, 0), wl(2, 4, "V") >>

\* Player 1 then walks around the walls to (8,1), one step from its goal
\* row, and is to move.
NoWallsEndCalls ==
    NoWallsCalls \o
    << mv(3, 0), mv(5, 8), mv(4, 0), mv(5, 7), mv(3, 0), mv(5, 6), mv(4, 0), mv(6, 6),
       mv(3, 0), mv(7, 6), mv(4, 0), mv(7, 7), mv(3, 0), mv(7, 8), mv(4, 0), mv(8, 8),
       mv(3, 0), mv(8, 7), mv(4, 0), mv(8, 6), mv(3, 0), mv(8, 5), mv(4, 0), mv(8, 4),
       mv(3, 0), mv(8, 3), mv(4, 0), mv(8, 2), mv(3, 0), mv(8, 1), mv(4, 0) >>

\* Player 1 then steps on its goal row: the game is won, no player holds a
\* wall.
NoWallsWonCalls == NoWallsEndCalls \o << mv(8, 0) >>

\* Calls that follow the game WallsOut. Player 1, holding its ten walls, walks
\* to (8,1), one step from its goal row, and is to move.
WallsOutEndCalls ==
    << mv(3, 0), mv(4, 7), mv(4, 0), mv(4, 6), mv(3, 0), mv(4, 5), mv(4, 0), mv(4, 4),
       mv(3, 0), mv(4, 3), mv(4, 0), mv(4, 2), mv(3, 0), mv(5, 2), mv(4, 0), mv(6, 2),
       mv(3, 0), mv(7, 2), mv(4, 0), mv(8, 2), mv(3, 0), mv(8, 1), mv(4, 0) >>

\* Calls that follow the game Trapped. The players place their last eight
\* walls each, away from the pawns: player 1 is to move, has no pawn move and
\* holds no wall.
StalledCalls ==
    << wl(0, 0, "H"), wl(2, 0, "H"), wl(4, 0, "H"), wl(6, 0, "H"),
       wl(0, 7, "H"), wl(2, 7, "H"), wl(4, 7, "H"), wl(6, 7, "H"),
       wl(0, 1, "H"), wl(2, 1, "H"), wl(4, 1, "H"), wl(6, 1, "H"),
       wl(0, 6, "H"), wl(2, 6, "H"), wl(4, 6, "H"), wl(6, 6, "H") >>

\* The games get_move is applied to: the openings, and the games that follow
\* WallsOut: player 0 has moved aside and player 1, who holds ten walls, is
\* to move; player 1 holds ten walls and is one step from its goal row; no
\* player holds a wall; no player holds a wall and player 1 is one step from
\* its goal row; the same game won by player 1; and the game that follows
\* Trapped, where player 1 has no pawn move and no player holds a wall.
AIGames ==
    { Game, FaceOff, EndGame, Boxed, Trapped }
    \cup { replay(s[1], s[2]) :
             s \in { <<WallsOut, << >> >>, <<WallsOut, << mv(5, 0) >> >>,
                     <<WallsOut, WallsOutEndCalls>>, <<WallsOut, NoWallsCalls>>,
                     <<WallsOut, NoWallsEndCalls>>, <<WallsOut, NoWallsWonCalls>>,
                     <<Trapped, StalledCalls>> } }

\* Difficulty tags handed to the constructor: the three of the game, two of
\* them in another case as well, and one that names no strategy.
DifficultyArgs == { "easy", "medium", "hard", "Hard", "Medium", "Expert" }

\* The search of the hard strategy is run on the games in which no player
\* holds a wall, where no node of the search draws a sample.
searched(g, difficulty) ==
    lower(difficulty) = "hard" => \A i \in Players : g.state.walls_left[i] = 0

InitAI ==
    /\ \E g \in AIGames :
         /\ state = g.state
         /\ history = g.history
         /\ winner = g.winner
         /\ \E player_index \in Players, difficulty \in DifficultyArgs :
              /\ searched(g, difficulty)
              /\ call = [op  |-> "QuoridorAI",
                         ai  |-> QuoridorAI(player_index, difficulty),
                         ret |-> NoMove]
    /\ before = [state |-> state, winner |-> winner]
    /\ ncalls = 0

GetMove ==
    /\ ncalls = 0
    /\ state' \in get_move_leaves(call.ai, state)
    /\ \E move \in get_move(call.ai, state) :
         call' = [op |-> "get_move", ai |-> call.ai, ret |-> move]
    /\ before' = [state |-> state, winner |-> winner]
    /\ ncalls' = 1
    /\ UNCHANGED <<history, winner>>

NextAI == GetMove

SpecAI == InitAI /\ [][NextAI]_vars

----------------------------------------------------------------------------
(* The nodes of the hard strategy's search *)

\* The player the AI was constructed for.
ai_player == call.ai.player_index

\* In this specification state is the position of a node of the search, a
\* private copy of the game state, and call holds the arguments of the
\* _minimax call made for it: depth, alpha, beta, maximizing_player. The
\* search starts at the state of a game with depth HARD_DEPTH and the window
\* (-inf, inf); each call made for a child goes one node down.

\* The games the search starts from: the new game, where both players hold
\* their walls, and the game in which no player holds a wall and player 1 is
\* one step from its goal row.
SearchGames == { Game, replay(WallsOut, NoWallsEndCalls) }

\* The walls of a sample that the search is followed into.
SearchWalls == { <<4, 7, "H">> }

\* Scores returned by the children searched before a child, as far as they
\* move alpha or beta.
SearchScores == { 0, 1 }

mover == IF call.maximizing_player THEN ai_player ELSE 1 - ai_player

\* A pawn stands on its goal row: _minimax returns without a loop.
game_over(gs) == \E i \in Players : gs.pos[i][2] = goal_row(i)

\* The moves _minimax can make a child for at the node.
child_moves ==
    { pawn(m) : m \in range(get_valid_moves(state, mover)) }
    \cup { wall(w) : w \in { w \in SearchWalls :
                               /\ state.walls_left[mover] > 0
                               /\ is_valid_wall_placement(state, w[1], w[2], w[3]).ret } }

\* The windows a child of the node can be called with: the window of the
\* node, alpha raised (beta lowered, at a minimizing node) by the score of a
\* child searched before, short of a break. Children at depth 0 return
\* without reading the window.
child_windows ==
    IF call.depth = 1 THEN { <<call.alpha, call.beta>> }
    ELSE { w \in { <<call.alpha, call.beta>> }
                 \cup { IF call.maximizing_player
                        THEN <<float_max(call.alpha, s), call.beta>>
                        ELSE <<call.alpha, float_min(call.beta, s)>> : s \in SearchScores } :
             ~le(w[2], w[1]) }

InitSearch ==
    /\ \E g \in SearchGames, player_index \in Players :
         /\ state = g.state
         /\ history = g.history
         /\ winner = g.winner
         /\ call = [op |-> "node",
                    ai |-> QuoridorAI(player_index, "hard"),
                    depth |-> HARD_DEPTH,
                    alpha |-> 0 - inf,
                    beta  |-> inf,
                    maximizing_player |-> TRUE,
                    ret |-> [score |-> 0, move |-> NoMove],
                    children |-> << >>,
                    cut |-> 0]
    /\ before = [state |-> state, winner |-> winner]
    /\ ncalls = 0

\* _minimax calls itself for a child of the node.
Descend ==
    /\ call.op = "node"
    /\ call.depth > 0
    /\ ~game_over(state)
    /\ \E move \in child_moves, w \in child_windows :
         /\ state' = temp_state(state, mover, move)
         /\ call' = [call EXCEPT !.depth = @ - 1,
                                 !.alpha = w[1],
                                 !.beta = w[2],
                                 !.maximizing_player = ~@]
    /\ before' = [state |-> state, winner |-> winner]
    /\ ncalls' = ncalls + 1
    /\ UNCHANGED <<history, winner>>

\* The pawn loop of the node ends with a break.
pawn_loop_breaks ==
    LET valid_moves == get_valid_moves(state, mover)
    IN  \A n \in minimax_loop(ai_player, state, call.depth, call.maximizing_player,
                              [ k \in DOMAIN valid_moves |-> pawn(valid_moves[k]) ],
                              [eval |-> IF call.maximizing_player THEN 0 - inf ELSE inf,
                               move |-> NoMove, alpha |-> call.alpha, beta |-> call.beta,
                               children |-> << >>, cut |-> 0]) :
           n.cut # 0

\* The outcomes of the call at the node are few enough to list: no loop runs,
\* or no node below draws a sample, or the children are at depth 0 and the
\* wall loop does not run or starts after a break.
listed ==
    \/ call.depth = 0
    \/ game_over(state)
    \/ \A i \in Players : state.walls_left[i] = 0
    \/ call.depth = 1 /\ (state.walls_left[mover] = 0 \/ pawn_loop_breaks)

\* The call at the node runs to its return: ret is the (score, move)
\* returned, children and cut are those of the node's loops.
Minimax ==
    /\ call.op = "node"
    /\ listed
    /\ IF call.depth = 0 \/ game_over(state)
       THEN \E r \in minimax(ai_player, state, call.depth, call.alpha, call.beta,
                             call.maximizing_player) :
               call' = [call EXCEPT !.op = "_minimax", !.ret = r]
       ELSE \E n \in minimax_node(ai_player, state, call.depth, call.alpha, call.beta,
                                  call.maximizing_player) :
               call' = [call EXCEPT !.op = "_minimax",
                                    !.ret = [score |-> n.eval, move |-> n.move],
                                    !.children = n.children,
                                    !.cut = n.cut]
    /\ ncalls' = ncalls + 1
    /\ UNCHANGED <<state, history, winner, before>>

NextSearch == Descend \/ Minimax

SpecSearch == InitSearch /\ [][NextSearch]_vars

----------------------------------------------------------------------------
(* The move returned by get_move, checked under SpecAI *)

\* The pawn of player i is one row from its goal row and can step onto it.
one_step_from_goal(gs, i) ==
    /\ gs.pos[i][2] - goal_row(i) \in { 1, 0 - 1 }
    /\ \E k \in DOMAIN get_valid_moves(gs, i) : get_valid_moves(gs, i)[k][2] = goal_row(i)

\* C18: in a game under way where the pawn of the AI player is one row from
\* its goal row and a pawn move onto that row is legal, get_move returns a
\* pawn move onto the goal row, whatever the difficulty.
C18_WinningMoveTaken ==
    (/\ call.op = "get_move"
     /\ winner = None
     /\ one_step_from_goal(state, ai_player))
        => /\ call.ret.type = "pawn"
           /\ call.ret.data[2] = goal_row(ai_player)

\* The move handed back is accepted by the game: Game.move_pawn for a pawn
\* move, Game.place_wall for a wall move.
accepted_by_game(g, i, move) ==
    CASE move.type = "pawn" ->
             /\ contains(get_valid_moves(g.state, i), move.data)
             /\ Game_move_pawn(g, move.data).ret
      [] move.type = "wall" ->
             /\ g.state.walls_left[i] > 0
             /\ is_valid_wall_placement(g.state, move.data[1], move.data[2], move.data[3]).ret
             /\ Game_place_wall(g, move.data[1], move.data[2], move.data[3]).ret
      [] OTHER -> FALSE

\* C19: in a game under way where the AI player is to move, the move get_move
\* returns is legal: a pawn move is among get_valid_moves of the AI player and
\* Game.move_pawn accepts it; a wall move is a valid placement, the AI player
\* holds a wall, and Game.place_wall accepts it.
C19_MoveIsLegal ==
    (/\ call.op = "get_move"
     /\ winner = None
     /\ state.current_player = ai_player
     /\ call.ret # NoMove)
        => accepted_by_game(game, ai_player, call.ret)

\* The medium strategy has answered with a wall in a game where ten walls
\* stand on the board, and the game accepts it.
C19_Witness ==
    /\ call.op = "get_move"
    /\ winner = None
    /\ state.current_player = ai_player
    /\ call.ai.difficulty = "medium"
    /\ call.ret.type = "wall"
    /\ Len(state.walls) = INITIAL_WALLS
    /\ accepted_by_game(game, ai_player, call.ret)

\* C20: when the AI player holds no wall, get_move never returns a wall move,
\* and returns a pawn move whenever the AI player has a legal pawn move.
C20_NoWallWithoutWalls ==
    (/\ call.op = "get_move"
     /\ state.walls_left[ai_player] = 0)
        => /\ call.ret.type # "wall"
           /\ get_valid_moves(state, ai_player) # << >> => call.ret.type = "pawn"

\* The AI player holds no wall while its opponent holds ten, and the
\* easy strategy has answered with a legal pawn move.
C20_Witness ==
    /\ call.op = "get_move"
    /\ state.walls_left[ai_player] = 0
    /\ state.walls_left[1 - ai_player] = INITIAL_WALLS
    /\ call.ai.difficulty = "easy"
    /\ call.ret.type = "pawn"
    /\ contains(get_valid_moves(state, ai_player), call.ret.data)

\* The AI player has a legal pawn move or a legal wall placement.
has_legal_move(gs, i) ==
    \/ get_valid_moves(gs, i) # << >>
    \/ get_all_valid_wall_placements(gs, i) # << >>

\* C21: get_move returns None exactly when the AI player has no legal pawn
\* move and no legal wall placement: never None while a legal move exists,
\* and None when none exists.
C21_NoneIffNoLegalMove ==
    call.op = "get_move" =>
        (call.ret = NoMove <=> ~has_legal_move(state, ai_player))

\* C22: get_move leaves the state it was given as it found it: pawn
\* positions, wall list, walls_left and current_player; the history and the
\* winner of the Game are untouched.
C22_StateUntouched ==
    [][call'.op = "get_move" => UNCHANGED <<state, history, winner>>]_vars

\* The medium strategy has listed and scored the wall placements of a player
\* holding ten walls, returned one, and the state is as it was.
C22_Witness ==
    /\ call.op = "get_move"
    /\ call.ai.difficulty = "medium"
    /\ call.ret.type = "wall"
    /\ state.walls_left[ai_player] = INITIAL_WALLS
    /\ Len(state.walls) = INITIAL_WALLS
    /\ state = before.state

\* The difficulty tags that name a strategy, in lower case.
Strategies == { "easy", "medium", "hard" }

\* C23: an AI constructed with a tag that is none of easy, medium, hard,
\* whatever the case of its letters, selects moves as the medium strategy
\* does: get_move can return exactly what the medium strategy can return,
\* and what it returned is one of these.
C23_UnknownTagIsMedium ==
    /\ call.op = "QuoridorAI" =>
         \A tag \in DifficultyArgs :
            lower(tag) \notin Strategies =>
               get_move(QuoridorAI(ai_player, tag), state)
                  = medium_strategy(state, ai_player)
    /\ (call.op = "get_move" /\ call.ai.difficulty \notin Strategies) =>
          call.ret \in medium_strategy(state, ai_player)

\* An AI constructed with the tag "Expert" has returned a wall, one that the
\* medium strategy returns.
C23_Witness ==
    /\ call.op = "get_move"
    /\ call.ai = QuoridorAI(ai_player, "Expert")
    /\ call.ai.difficulty \notin Strategies
    /\ call.ret.type = "wall"
    /\ call.ret \in medium_strategy(state, ai_player)

----------------------------------------------------------------------------
(* The player to move, checked under Spec *)

\* C24: while the game is not over, the player to move has a legal pawn
\* move.
C24_MoverCanMove ==
    winner = None => get_valid_moves(state, state.current_player) # << >>

----------------------------------------------------------------------------
(* The history across rejected calls, checked under Spec *)

\* C25: a rejected move_pawn or place_wall leaves both history stacks as they
\* were, so that a redo entry left by an undo is still there.
C25_RejectedKeepsHistory ==
    [][(moving(call'.op) /\ ~call'.ret) => history' = history]_vars

----------------------------------------------------------------------------
(* The winner across undo and redo, checked under Spec *)

\* The pawn of player i stands on the goal row of player i.
on_goal_row(gs, i) == gs.pos[i][2] = goal_row(i)

\* C26: winner is i exactly when the pawn of player i stands on its goal
\* row, and None exactly when no pawn stands on its goal row, after every
\* call of the Game, undo and redo among them.
C26_WinnerIffOnGoalRow ==
    /\ \A i \in Players : winner = i <=> on_goal_row(state, i)
    /\ winner = None <=> \A i \in Players : ~on_goal_row(state, i)

\* A winning move was undone, which cleared the winner, and redone: the
\* pawn is back on its goal row and the winner is set again.
C26_Witness ==
    /\ call.op = "redo"
    /\ call.ret
    /\ before.winner = None
    /\ \A i \in Players : ~on_goal_row(before.state, i)
    /\ history.undo_stack # << >>
    /\ \E i \in Players : winner = i /\ on_goal_row(state, i)

----------------------------------------------------------------------------
(* The wall list, checked under Spec *)

\* C27: whatever arguments place_wall was called with, every wall of the
\* wall list has orientation "H" or "V" and an anchor on the slot grid, and
\* stands in the list once.
C27_WallsWellFormed ==
    \A k \in DOMAIN state.walls :
       /\ state.walls[k][1] \in {"H", "V"}
       /\ <<state.walls[k][2], state.walls[k][3]>> \in Slots
       /\ \A j \in DOMAIN state.walls : state.walls[j] = state.walls[k] => j = k

----------------------------------------------------------------------------
(* place_wall and the list of valid placements, checked under SpecRules *)

\* The placement has its anchor on the slot grid, is not on the board, has no
\* wall of its orientation in a neighbouring slot along its axis and, added
\* to the walls, leaves every player a path to its goal row.
legal_placement(gs, x, y, orientation) ==
    /\ <<x, y>> \in Slots
    /\ ~contains(gs.walls, <<orientation, x, y>>)
    /\ \A s \in along(x, y, orientation) : ~contains(gs.walls, <<orientation, s[1], s[2]>>)
    /\ \A i \in Players :
          has_path_to_goal([gs EXCEPT !.walls = Append(@, <<orientation, x, y>>)], i)

\* C28: for an "H" or "V" wall, Game.place_wall is accepted in a game under
\* way exactly when the placement is in get_all_valid_wall_placements of the
\* player to move. That list is empty when the player holds no wall and is
\* otherwise exactly the placements on the slot grid that are not on the
\* board, have no wall of their orientation next to them along their axis and
\* leave both players a path. valid is the list, computed once.
C28_AcceptedIffListed ==
    /\ (ncalls = 0 /\ winner = None) =>
         \A valid \in { get_all_valid_wall_placements(state, state.current_player) } :
            /\ state.walls_left[state.current_player] = 0 => valid = << >>
            /\ \A x \in SlotArgs, y \in SlotArgs, orientation \in {"H", "V"} :
                  /\ Game_place_wall(game, x, y, orientation).ret
                        <=> contains(valid, <<x, y, orientation>>)
                  /\ state.walls_left[state.current_player] > 0 =>
                        (contains(valid, <<x, y, orientation>>)
                            <=> legal_placement(state, x, y, orientation))
    /\ (call.op = "place_wall" /\ before.winner = None /\ call.arg[3] \in {"H", "V"}) =>
         (call.ret <=>
             /\ before.state.walls_left[before.state.current_player] > 0
             /\ legal_placement(before.state, call.arg[1], call.arg[2], call.arg[3]))

\* place_wall has refused the wall that closes the last gap around player 1,
\* which is not in the list of valid placements, in a game where it accepts
\* the wall H(3,3), which is.
C28_Witness ==
    /\ call.op = "place_wall"
    /\ call.arg = <<4, 7, "V">>
    /\ ~call.ret
    /\ before.winner = None
    /\ before.state.walls_left[before.state.current_player] > 0
    /\ ~contains(get_all_valid_wall_placements(before.state, before.state.current_player),
                 <<4, 7, "V">>)
    /\ contains(get_all_valid_wall_placements(before.state, before.state.current_player),
                <<3, 3, "H">>)
    /\ state = before.state

----------------------------------------------------------------------------
(* wall_blocks_move, checked under SpecRules *)

\* The two unit edges a wall covers, each the pair of cells it separates: an
\* "H" wall lies between rows y and y + 1 in columns x and x + 1, a "V" wall
\* between columns x and x + 1 in rows y and y + 1.
edges(w) ==
    LET x == w[2]
        y == w[3]
    IN  IF w[1] = "H"
        THEN { { <<x, y>>, <<x, y + 1>> }, { <<x + 1, y>>, <<x + 1, y + 1>> } }
        ELSE IF w[1] = "V"
        THEN { { <<x, y>>, <<x + 1, y>> }, { <<x, y + 1>>, <<x + 1, y + 1>> } }
        ELSE {}

\* C29: for two cells of the board one step apart, wall_blocks_move is true
\* exactly when a wall of the list covers the edge between them, and gives
\* the same answer in the other direction of travel.
C29_BlocksCoveredEdges ==
    call.op = "wall_blocks_move" =>
        /\ call.ret <=> \E k \in DOMAIN state.walls :
                           { call.arg[1], call.arg[2] } \in edges(state.walls[k])
        /\ call.ret = wall_blocks_move(state.walls, call.arg[2], call.arg[1])

\* With the wall H(3,3) alone on the board, the step up from (4,4) to (4,3),
\* across the edge away from the anchor, is blocked.
C29_Witness ==
    /\ call.op = "wall_blocks_move"
    /\ state.walls = << <<"H", 3, 3>> >>
    /\ call.arg = << <<4, 4>>, <<4, 3>> >>
    /\ call.ret

----------------------------------------------------------------------------
(* has_path_to_goal and get_shortest_path_length, checked under SpecRules *)

\* The cells one step from cell c with no wall of the list across the edge.
open_steps(walls, c) ==
    { n \in { <<c[1] + 1, c[2]>>, <<c[1] - 1, c[2]>>, <<c[1], c[2] + 1>>, <<c[1], c[2] - 1>> } :
         /\ n \in Cells
         /\ \A k \in DOMAIN walls : { c, n } \notin edges(walls[k]) }

\* The least number of steps in which a cell of row goal is reached from a
\* cell of R, where R holds the cells reached in at most k steps; inf when
\* R stops growing before.
RECURSIVE min_steps(_, _, _, _)
min_steps(walls, goal, R, k) ==
    IF \E c \in R : c[2] = goal THEN k
    ELSE LET grown == R \cup UNION { open_steps(walls, c) : c \in R }
         IN  IF grown = R THEN inf
             ELSE min_steps(walls, goal, grown, k + 1)

\* For player i in state gs, has_path_to_goal holds exactly when
\* get_shortest_path_length is finite, and that length is the least number
\* of unblocked steps to the goal row.
searches_agree(gs, i) ==
    /\ has_path_to_goal(gs, i) <=> get_shortest_path_length(gs, i) < inf
    /\ get_shortest_path_length(gs, i) = min_steps(gs.walls, goal_row(i), {gs.pos[i]}, 0)

\* C30: has_path_to_goal is true exactly when get_shortest_path_length is
\* finite, get_shortest_path_length is the minimum number of orthogonal steps
\* not blocked by a wall from the player's cell to its goal row, and neither
\* result depends on where the opponent stands. Checked on the games and on
\* the states with a wall tentatively added that is_valid_wall_placement
\* searches.
C30_SearchesAgree ==
    /\ (call.op = "is_valid_wall_placement" /\ contains(wall_candidates, call.arg)) =>
          \A i \in Players : searches_agree(tentative, i)
    /\ call.op = "get_shortest_path_length" =>
          /\ call.ret = get_shortest_path_length(state, call.player)
          /\ searches_agree(state, call.player)
          /\ \A c \in Cells \ { state.pos[call.player] } :
                LET moved == [state EXCEPT !.pos[1 - call.player] = c]
                IN  /\ get_shortest_path_length(moved, call.player) = call.ret
                    /\ has_path_to_goal(moved, call.player) = has_path_to_goal(state, call.player)

\* The wall that would close the last gap around player 1 was tried:
\* with it on the board player 1 has no path and an infinite length, player
\* 0 a path of finite length.
C30_Witness ==
    /\ call.op = "is_valid_wall_placement"
    /\ call.arg = <<4, 7, "V">>
    /\ ~call.ret
    /\ ~has_path_to_goal(tentative, 1)
    /\ get_shortest_path_length(tentative, 1) = inf
    /\ has_path_to_goal(tentative, 0)
    /\ get_shortest_path_length(tentative, 0) < inf
    /\ get_shortest_path_length(tentative, 0) > BOARD_SIZE - 1

----------------------------------------------------------------------------
(* The board axes, checked under SpecMoves *)

\* A cell with its x and y swapped.
swapped(c) == <<c[2], c[1]>>

\* The position gs seen along the other axis: x and y of both pawns and of
\* every wall anchor swapped, H walls become V walls and V walls H walls.
transposed(gs) ==
    [gs EXCEPT !.pos   = [i \in Players |-> swapped(gs.pos[i])],
               !.walls = [k \in DOMAIN gs.walls |->
                            << IF gs.walls[k][1] = "H" THEN "V" ELSE "H",
                               gs.walls[k][3], gs.walls[k][2] >>] \o << >>]

\* C31: transposing a position transposes the set of moves get_valid_moves
\* returns: the moves of the transposed position are the moves of the
\* position with x and y swapped, side steps included.
C31_AxesAlike ==
    call.op = "get_valid_moves" =>
        range(get_valid_moves(transposed(state), call.player))
            = { swapped(m) : m \in range(call.ret) }

----------------------------------------------------------------------------
(* Undo down to the new game, checked under Spec *)

\* Undos made in one stretch of the loop below.
UndoStretch == 8

\* Game.undo called on g until it returns False or k calls were made: the
\* game then, the calls that returned True (n of them were made before), and
\* whether the last call returned False; r is the call on g, computed once.
RECURSIVE undo_stretch(_, _, _)
undo_stretch(g, n, k) ==
    IF k = 0 THEN [g |-> g, n |-> n, stopped |-> FALSE]
    ELSE CHOOSE s \in { IF r.ret THEN undo_stretch(r.g, n + 1, k - 1)
                                 ELSE [g |-> r.g, n |-> n, stopped |-> TRUE] :
                        r \in { Game_undo(g) } } : TRUE

\* Game.undo called on g until it returns False, stretch after stretch.
RECURSIVE undo_until_false(_, _)
undo_until_false(g, n) ==
    CHOOSE s \in { IF b.stopped THEN b ELSE undo_until_false(b.g, b.n) :
                   b \in { undo_stretch(g, n, UndoStretch) } } : TRUE

\* The successful undos a game has in it.
undos(g) == undo_until_false(g, 0).n

\* C32: undo called until it returns False ends in the state of a new game
\* with no winner; the number of undos that returned True is the number of
\* accepted moves on the line of play: none after a reset, one more after an
\* accepted move or a redo, one less after an undo, unchanged by a refused
\* call, and odd exactly when player 1 is to move.
C32_UndoToNewGame ==
    [][LET u == undo_until_false(game', 0)
       IN  /\ u.g.state = GameState
           /\ u.g.winner = None
           /\ u.n % 2 = state'.current_player
           /\ u.n = CASE call'.op = "reset" -> 0
                      [] ~call'.ret -> undos(game)
                      [] call'.op = "undo" -> undos(game) - 1
                      [] OTHER -> undos(game) + 1]_vars

\* A game that was won, then taken back one move and played forward again by
\* redo: more undos than one stretch are in it.
C32_Witness ==
    /\ call = [op |-> "redo", ret |-> TRUE]
    /\ winner # None
    /\ undos(game) > UndoStretch
    /\ undo_until_false(game, 0).g.state = GameState

----------------------------------------------------------------------------
(* The state handed to get_move while the call runs, checked under SpecAI *)

\* C33: during get_move the state passed in is never modified, not even for
\* the time of a check: the only state it goes through is the one it had
\* when get_move was called.
C33_NeverTouched ==
    call.op = "get_move" => get_move_during(call.ai, before.state) = { before.state }

----------------------------------------------------------------------------
(* The choice of the medium strategy, checked under SpecAI *)

\* The opponent's shortest path minus player i's own in position gs.
path_lead(gs, i) == get_shortest_path_length(gs, 1 - i) - get_shortest_path_length(gs, i)

\* Twice the lead of a wall over a pawn move is more than 3: the wall's score
\* exceeds the pawn move's by more than 1.5.
exceeds_by_more_than_1_5(wall_score, pawn_score) == 2 * (wall_score - pawn_score) > 3

\* The moves the rule of C34 lets the medium strategy return for player i in
\* position gs. legal is the list of the legal walls of a player that holds a
\* wall, ws their scores, ps the scores of the legal pawn moves, each computed
\* once; the evaluated walls are any size of the legal ones, so a wall is
\* the best evaluated one when size - 1 others score no higher, and no
\* evaluated wall is far enough ahead when size of them are not.
medium_rule(gs, i) ==
    LET valid_moves == get_valid_moves(gs, i)
        ps     == [ k \in DOMAIN valid_moves |->
                      path_lead([gs EXCEPT !.pos[i] = valid_moves[k]], i) ] \o << >>
        best_p == IF valid_moves = << >> THEN 0 - inf
                  ELSE CHOOSE s \in range(ps) : \A t \in range(ps) : t <= s
        first  == CHOOSE k \in DOMAIN ps : ps[k] = best_p /\ \A j \in 1..(k - 1) : ps[j] # best_p
        is_legal(w) == gs.walls_left[i] > 0 /\ legal_placement(gs, w[1], w[2], w[3])
        legal  == SelectSeq(wall_candidates, is_legal)
        ws     == [ k \in DOMAIN legal |->
                      path_lead([gs EXCEPT !.walls = Append(@, <<legal[k][3], legal[k][1],
                                                                 legal[k][2]>>)], i) ] \o << >>
        size   == min(MEDIUM_SAMPLE, Len(legal))
        ahead  == { k \in DOMAIN legal : exceeds_by_more_than_1_5(ws[k], best_p) }
    IN  { wall(legal[k]) :
            k \in { k \in ahead :
                      Cardinality({ j \in DOMAIN legal : j # k /\ ws[j] <= ws[k] }) >= size - 1 } }
        \cup { pawn(valid_moves[k]) :
                 k \in { k \in DOMAIN ps :
                           /\ k = first
                           /\ Cardinality(DOMAIN legal \ ahead) >= size } }

\* C34: the medium strategy returns a wall exactly when the best score among
\* the evaluated legal walls exceeds the best pawn-move score by more than
\* 1.5, and that wall is the best evaluated one; otherwise, when a legal pawn
\* move exists, it returns the first legal pawn move of the highest score.
\* Before the call: the moves the strategy can return are the moves of the
\* rule. After the call: a wall returned is more than 1.5 ahead of every
\* pawn move, a pawn move returned is the first of the highest score.
C34_MediumRule ==
    /\ (call.op = "QuoridorAI" /\ call.ai.difficulty = "medium") =>
          /\ medium_strategy(state, ai_player) \ { NoMove } = medium_rule(state, ai_player)
          /\ NoMove \in medium_strategy(state, ai_player)
                => get_valid_moves(state, ai_player) = << >>
    /\ (call.op = "get_move" /\ call.ai.difficulty = "medium") =>
          LET gs == before.state
              valid_moves == get_valid_moves(gs, ai_player)
              ps == [ k \in DOMAIN valid_moves |->
                        path_lead([gs EXCEPT !.pos[ai_player] = valid_moves[k]], ai_player) ]
                    \o << >>
          IN  /\ call.ret.type = "wall" =>
                   \A k \in DOMAIN ps :
                      exceeds_by_more_than_1_5(
                          path_lead([gs EXCEPT !.walls = Append(@, <<call.ret.data[3],
                                        call.ret.data[1], call.ret.data[2]>>)], ai_player),
                          ps[k])
              /\ call.ret.type = "pawn" =>
                   \E k \in DOMAIN ps :
                      /\ valid_moves[k] = call.ret.data
                      /\ \A j \in DOMAIN ps : ps[j] <= ps[k]
                      /\ \A j \in 1..(k - 1) : ps[j] < ps[k]

\* The medium strategy has returned a wall in a game where the player also
\* has pawn moves, and in another run of the same call returns a pawn move.
C34_Witness ==
    /\ call.op = "get_move"
    /\ call.ai.difficulty = "medium"
    /\ call.ret.type = "wall"
    /\ get_valid_moves(before.state, ai_player) # << >>
    /\ call.ret \in medium_rule(before.state, ai_player)
    /\ \E m \in medium_rule(before.state, ai_player) : m.type = "pawn"

----------------------------------------------------------------------------
(* The pawn move of the easy strategy, checked under SpecAI *)

\* The rows between cell c and the goal row of player i.
row_distance(c, i) == abs(c[2] - goal_row(i))

\* The legal pawn moves of player i that bring its pawn nearer to its goal row.
advancing(gs, i) ==
    { m \in range(get_valid_moves(gs, i)) : row_distance(m, i) < row_distance(gs.pos[i], i) }

\* C39: when the easy strategy returns a pawn move and some legal pawn move
\* brings the pawn nearer to its goal row, the move returned does; a move
\* that does not is returned only when no legal pawn move does.
C39_EasyAdvances ==
    (/\ call.op = "get_move"
     /\ call.ai.difficulty = "easy"
     /\ call.ret.type = "pawn")
        => /\ call.ret.data \in range(get_valid_moves(before.state, ai_player))
           /\ advancing(before.state, ai_player) # {}
                 => call.ret.data \in advancing(before.state, ai_player)

\* The easy strategy has returned an advancing pawn move for a player that
\* also has a legal pawn move that does not advance and holds a wall.
C39_Witness ==
    /\ call.op = "get_move"
    /\ call.ai.difficulty = "easy"
    /\ call.ret.type = "pawn"
    /\ before.state.walls_left[ai_player] > 0
    /\ call.ret.data \in advancing(before.state, ai_player)
    /\ range(get_valid_moves(before.state, ai_player)) \ advancing(before.state, ai_player) # {}

\* The easy strategy has returned a pawn move that does not advance, no legal
\* pawn move of the player advancing.
C39_WitnessNoAdvance ==
    /\ call.op = "get_move"
    /\ call.ai.difficulty = "easy"
    /\ call.ret.type = "pawn"
    /\ advancing(before.state, ai_player) = {}

----------------------------------------------------------------------------
(* The hard strategy without a candidate, checked under SpecAI *)

\* The search of the hard strategy from its root.
root_search(gs, i) == minimax(i, gs, HARD_DEPTH, 0 - inf, inf, TRUE)

\* C38: when the search of the hard strategy ends without a move at the root
\* (a pawn is on its goal row, the AI player has no move to expand, or no
\* child scores above -inf), get_move returns what the medium strategy
\* returns for that state: before the call the moves get_move can return are
\* the moves of the medium strategy, after it the move returned is one of them.
C38_FallsBackToMedium ==
    /\ (/\ call.op = "QuoridorAI"
        /\ call.ai.difficulty = "hard"
        /\ \A r \in root_search(state, ai_player) : r.move = NoMove)
          => get_move(call.ai, state) = medium_strategy(state, ai_player)
    /\ (/\ call.op = "get_move"
        /\ call.ai.difficulty = "hard"
        /\ \A r \in root_search(before.state, ai_player) : r.move = NoMove)
          => call.ret \in medium_strategy(before.state, ai_player)

\* The hard strategy was called on a finished game, its search returned no
\* move at the root, and get_move returned the pawn move of the medium
\* strategy.
C38_Witness ==
    /\ call.op = "get_move"
    /\ call.ai.difficulty = "hard"
    /\ winner # None
    /\ \A r \in root_search(before.state, ai_player) : r.move = NoMove
    /\ call.ret.type = "pawn"
    /\ call.ret \in medium_strategy(before.state, ai_player)

\* The hard strategy was called for a player with no pawn move and no wall
\* and returned None, as the medium strategy does.
C38_WitnessNoMove ==
    /\ call.op = "get_move"
    /\ call.ai.difficulty = "hard"
    /\ winner = None
    /\ get_valid_moves(before.state, ai_player) = << >>
    /\ call.ret = NoMove

----------------------------------------------------------------------------
(* The search against plain minimax, checked under SpecAI *)

\* The candidate moves of player m at a node, pawn moves first, then walls.
plain_candidates(gs, m) ==
    LET valid_moves == get_valid_moves(gs, m)
        valid_walls == get_all_valid_wall_placements(gs, m)
    IN  [ k \in DOMAIN valid_moves |-> pawn(valid_moves[k]) ]
        \o [ k \in DOMAIN valid_walls |-> wall(valid_walls[k]) ]

\* The first of the moves whose score no other score is beyond (above at a
\* maximizing node, below at a minimizing one), with that score; no move and
\* the starting score when no score is beyond the starting score.
plain_first_best(maximizing, moves, scores) ==
    LET start  == IF maximizing THEN 0 - inf ELSE inf
        beyond(a, b) == IF maximizing THEN gt(a, b) ELSE lt(a, b)
        firsts == { k \in DOMAIN moves :
                      /\ beyond(scores[k], start)
                      /\ \A j \in DOMAIN moves : ~beyond(scores[j], scores[k]) }
    IN  IF firsts = {} THEN [score |-> start, move |-> NoMove]
        ELSE LET k == CHOOSE k \in firsts : \A j \in firsts : k <= j
             IN  [score |-> scores[k], move |-> moves[k]]

\* Minimax without a window: every candidate of every node is searched down
\* to depth 0. The nodes are scored as _minimax scores them.
RECURSIVE plain_minimax(_, _, _, _)
plain_minimax(i, gs, depth, maximizing) ==
    IF depth = 0
    THEN [score |-> evaluate_position(gs, i), move |-> NoMove]
    ELSE IF game_over(gs)
    THEN [score |-> IF (IF gs.pos[0][2] = goal_row(0) THEN 0 ELSE 1) = i
                    THEN WIN_SCORE ELSE 0 - WIN_SCORE,
          move  |-> NoMove]
    ELSE LET m      == IF maximizing THEN i ELSE 1 - i
             moves  == plain_candidates(gs, m)
             scores == [ k \in DOMAIN moves |->
                           plain_minimax(i, temp_state(gs, m, moves[k]),
                                         depth - 1, ~maximizing).score ] \o << >>
         IN  plain_first_best(maximizing, moves, scores)

\* The search from the root prunes: a child of the root, called with alpha
\* raised by the children before it, ends a loop with a break.
root_prunes(gs, i) ==
    LET moves  == plain_candidates(gs, i)
        scores == [ k \in DOMAIN moves |->
                      plain_minimax(i, temp_state(gs, i, moves[k]),
                                    HARD_DEPTH - 1, FALSE).score ] \o << >>
    IN  \E k \in 2..Len(moves) :
          \E alpha \in { plain_first_best(TRUE, SubSeq(moves, 1, k - 1),
                                          SubSeq(scores, 1, k - 1)).score } :
            \E n \in minimax_node(i, temp_state(gs, i, moves[k]), HARD_DEPTH - 1,
                                   alpha, inf, FALSE) : n.cut # 0

----------------------------------------------------------------------------
(* The nodes of the search, checked under SpecSearch *)

\* C35: a node whose position has a pawn on its goal row is scored +1000 when
\* the pawn is the AI player's and -1000 when it is the opponent's, and no
\* child of it is searched, at every depth, depth 0 included.
C35_WinScoredEverywhere ==
    (call.op = "_minimax" /\ game_over(state)) =>
        /\ call.ret.score = IF state.pos[ai_player][2] = goal_row(ai_player)
                            THEN WIN_SCORE ELSE 0 - WIN_SCORE
        /\ call.ret.move = NoMove
        /\ call.children = << >>

\* C36: at a node of the search, once beta <= alpha holds after a child was
\* searched, no other child of the node is searched, pawn move or wall: the
\* children searched are those up to the one at which it first held.
C36_NoChildAfterCutoff ==
    (call.op = "_minimax" /\ call.cut # 0) => Len(call.children) = call.cut

====
